---- MODULE Spec2Model ----
(***************************************************************************)
(* Model of the e-commerce support chatbot: the /chat intent pipeline      *)
(* (language-model suggestion, warranty safeguard, keyword fallback), the  *)
(* product pattern cache, the conversation log and the administrative      *)
(* database endpoints.                                                     *)
(*                                                                         *)
(* Python strings are tuples of one-character strings, so that the regular *)
(* expressions, str.strip, str.lower, str.split, ILIKE and json.dumps are  *)
(* computed character by character.  U+2014 (em dash) is written "-".       *)
(* Python None is the one-element tuple <<"None">>, which no string is.    *)
(***************************************************************************)
EXTENDS Integers, Sequences, FiniteSets, TLC

VARIABLES messages, orders, products, warranties, cache, cache_timestamp, now, clock_step,
          resp, trace, served

vars == <<messages, orders, products, warranties, cache, cache_timestamp, now, clock_step,
          resp, trace, served>>

(***************************************************************************)
(* Bounds of the model.                                                    *)
(***************************************************************************)
\* /chat and /history requests are sent while the conversation log holds at most this many turns
MaxLog == 2

\* number of times the clock may jump by a whole cache window
MaxJumps == 1

\* number of requests the server answers
MaxRequests == 3

(***************************************************************************)
(* Characters and strings.                                                 *)
(***************************************************************************)
None == <<"None">>

\* a JSON number or boolean: a value that is neither a string nor null
JsonNumber == <<"Number">>

IsStr(v) == v # None /\ v # JsonNumber

UPPER == <<"A","B","C","D","E","F","G","H","I","J","K","L","M","N","O","P","Q","R","S","T","U","V","W","X","Y","Z">>

LOWER == <<"a","b","c","d","e","f","g","h","i","j","k","l","m","n","o","p","q","r","s","t","u","v","w","x","y","z">>

DIGITS == {"0","1","2","3","4","5","6","7","8","9"}

UpperSet == {UPPER[i] : i \in 1..26}

LowerSet == {LOWER[i] : i \in 1..26}

lowerOf == [c \in UpperSet |-> LOWER[CHOOSE i \in 1..26 : UPPER[i] = c]]

\* str.lower() on one character
LowerChar(c) == IF c \in UpperSet THEN lowerOf[c] ELSE c

\* str.lower()
lower(s) == [i \in 1..Len(s) |-> LowerChar(s[i])]

\* \w of the re module
IsWordChar(c) == c \in UpperSet \cup LowerSet \cup DIGITS \cup {"_"}

IsSpace(c) == c \in {" ", "\n", "\t", "\r"}

Min(S) == CHOOSE x \in S : \A y \in S : x <= y

Max(S) == CHOOSE x \in S : \A y \in S : x >= y

\* str.strip()
strip(s) ==
  LET keep == {i \in 1..Len(s) : ~IsSpace(s[i])}
  IN  IF keep = {} THEN <<>> ELSE SubSeq(s, Min(keep), Max(keep))

\* str.split(): the maximal runs of non-whitespace characters
split(s) ==
  LET starts == {i \in 1..Len(s) : ~IsSpace(s[i]) /\ (i = 1 \/ IsSpace(s[i-1]))}
      endOf(i) == Min({j \in i..Len(s) : j = Len(s) \/ IsSpace(s[j+1])})
      RECURSIVE build(_)
      build(S) == IF S = {} THEN <<>>
                  ELSE LET i == Min(S) IN <<SubSeq(s, i, endOf(i))>> \o build(S \ {i})
  IN  build(starts)

\* str.startswith
startswith(s, p) == Len(p) <= Len(s) /\ SubSeq(s, 1, Len(p)) = p

\* decimal rendering of a natural number (str(int), json.dumps of an int)
RECURSIVE str_int(_)
str_int(n) ==
  LET d == <<"0","1","2","3","4","5","6","7","8","9">>[(n % 10) + 1]
  IN  IF n < 10 THEN <<d>> ELSE str_int(n \div 10) \o <<d>>

(***************************************************************************)
(* The regular expressions of the program, as the re module matches them.  *)
(***************************************************************************)
\* \b between positions p and p+1 of s (p = 0 is the start, p = Len(s) the end)
re_b(s, p) ==
  LET w(k) == k \in 1..Len(s) /\ IsWordChar(s[k])
  IN  w(p) # w(p + 1)

\* the literal lit occurs in s at position i; ic is re.I
re_lit_at(s, i, lit, ic) ==
  /\ i >= 1
  /\ i + Len(lit) - 1 <= Len(s)
  /\ \A k \in 1..Len(lit) :
        IF ic THEN LowerChar(s[i + k - 1]) = LowerChar(lit[k]) ELSE s[i + k - 1] = lit[k]

\* end of the greedy run \d* that starts at position i (i - 1 when s[i] is no digit)
re_digits_end(s, i) ==
  Max({j \in (i - 1)..Len(s) : \A k \in i..j : s[k] \in DIGITS})

\* re.search(r"(<prefix>\d+)", s, flags).group(1), or None: the leftmost match, \d+ greedy
re_search_prefix_digits(prefix, s, ic) ==
  LET n == Len(prefix)
      starts == {i \in 1..Len(s) : /\ re_lit_at(s, i, prefix, ic)
                                   /\ i + n <= Len(s)
                                   /\ s[i + n] \in DIGITS}
  IN  IF starts = {} THEN None
      ELSE LET i == Min(starts) IN SubSeq(s, i, re_digits_end(s, i + n))

\* re.search(r"\bP\d+\b", s).group(0), or None.  \d+ cannot give digits back to reach
\* a boundary (between two digits there is none), so only the whole run can match.
re_search_b_P_digits_b(s) ==
  LET starts == {i \in 1..Len(s) : /\ s[i] = "P"
                                   /\ re_b(s, i - 1)
                                   /\ i + 1 <= Len(s)
                                   /\ s[i + 1] \in DIGITS
                                   /\ re_b(s, re_digits_end(s, i + 1))}
  IN  IF starts = {} THEN None
      ELSE LET i == Min(starts) IN SubSeq(s, i, re_digits_end(s, i + 1))

\* positions where \b(lit)\b matches in s
re_word_starts(lit, s, ic) ==
  {i \in 1..Len(s) : /\ re_lit_at(s, i, lit, ic)
                     /\ re_b(s, i - 1)
                     /\ re_b(s, i + Len(lit) - 1)}

\* bool(re.search(r"\b(a1|a2|...)\b", s, flags)) for the alternatives alts
re_search_words(alts, s, ic) ==
  \E k \in 1..Len(alts) : re_word_starts(alts[k], s, ic) # {}

\* re.search(r"\b(<lit>)\b", s, re.I).group(1), or None: the text of s at the leftmost match
re_search_word(lit, s) ==
  LET starts == re_word_starts(lit, s, TRUE)
  IN  IF starts = {} THEN None
      ELSE LET i == Min(starts) IN SubSeq(s, i, i + Len(lit) - 1)

\* SQL: name ILIKE pattern (% any run, _ any one character, case-insensitive)
RECURSIVE ilike(_, _)
ilike(s, p) ==
  IF p = <<>> THEN s = <<>>
  ELSE IF Head(p) = "%" THEN ilike(s, Tail(p)) \/ (s # <<>> /\ ilike(Tail(s), p))
  ELSE /\ s # <<>>
       /\ (Head(p) = "_" \/ LowerChar(Head(p)) = LowerChar(Head(s)))
       /\ ilike(Tail(s), Tail(p))

(***************************************************************************)
(* The store: tables are sequences of rows in insertion order.             *)
(***************************************************************************)
\* Message(user_id, role, content) with created_at = utcnow()
Message(user_id, role, content, t) ==
  [user_id |-> user_id, role |-> role, content |-> content, created_at |-> t]

\* a persist_message that keeps one row per user and role, overwriting the row it finds
persist_message_upsert(log, user_id, role, content, t) ==
  LET own == {i \in 1..Len(log) : log[i].user_id = user_id /\ log[i].role = role}
  IN  IF own = {} THEN Append(log, Message(user_id, role, content, t))
      ELSE [log EXCEPT ![Max(own)] = Message(user_id, role, content, t)]

\* persist_message: one row appended to the messages table
persist_message(log, user_id, role, content, t) ==
  Append(log, Message(user_id, role, content, t))

\* the orderings "ORDER BY created_at" can return for the rows idx of table tbl, as
\* sequences of row numbers: rows with equal created_at come in any order
RECURSIVE order_by_created_at(_, _, _)
order_by_created_at(tbl, idx, desc) ==
  IF idx = {} THEN {<<>>}
  ELSE LET first == {i \in idx : \A j \in idx :
                        IF desc THEN tbl[i].created_at >= tbl[j].created_at
                                ELSE tbl[i].created_at <= tbl[j].created_at}
       IN  UNION {{<<i>> \o r : r \in order_by_created_at(tbl, idx \ {i}, desc)} : i \in first}

rows_of_user(tbl, user_id) == {i \in 1..Len(tbl) : tbl[i].user_id = user_id}

limit(rows, n) == SubSeq(rows, 1, IF Len(rows) < n THEN Len(rows) ELSE n)

\* the rows the query of get_last_n_messages can select, newest first
last_n_rows(log, user_id, n) ==
  {limit(r, n) : r \in order_by_created_at(log, rows_of_user(log, user_id), TRUE)}

\* get_last_n_messages: the list built from the selected rows
get_last_n_messages(log, rows) ==
  [i \in 1..Len(rows) |-> [role |-> log[rows[i]].role, content |-> log[rows[i]].content]]

\* get_all_messages_for_user: the possible results, oldest first
get_all_messages_for_user(log, user_id) ==
  {[i \in 1..Len(r) |-> [role |-> log[r[i]].role, content |-> log[r[i]].content,
                          created_at |-> log[r[i]].created_at]] :
      r \in order_by_created_at(log, rows_of_user(log, user_id), FALSE)}

\* select(Order).where(user_id).order_by(created_at.desc()).limit(1) ... .first():
\* the possible results, None when the user has no order
get_latest_order_for_user(os, user_id) ==
  {IF r = <<>> THEN [py |-> "None"] ELSE os[r[1]] :
      r \in order_by_created_at(os, rows_of_user(os, user_id), TRUE)}

\* order.product: the row the foreign key product_id names
product_of(ps, product_id) ==
  LET hit == {i \in 1..Len(ps) : ps[i].id = product_id}
  IN  IF hit = {} THEN [py |-> "None"] ELSE ps[Min(hit)]

\* the dict both order lookups build for an order that was found
order_dict(ps, o) ==
  LET p == product_of(ps, o.product_id)
  IN  [py |-> "dict", found |-> TRUE, order_id |-> o.order_id, status |-> o.status,
       tracking |-> o.tracking, user_id |-> o.user_id,
       product_id |-> IF "id" \in DOMAIN p THEN p.id ELSE None,
       product_name |-> IF "id" \in DOMAIN p THEN p.name ELSE None]

\* a lookup by order id alone, whoever the order belongs to
get_user_order_status_any_user(os, ps, user_id, order_id) ==
  LET hit == {i \in 1..Len(os) : os[i].order_id = order_id}
  IN  IF hit = {} THEN [py |-> "dict", found |-> FALSE, order_id |-> order_id]
      ELSE order_dict(ps, os[Min(hit)])

get_user_order_status(os, ps, user_id, order_id) ==
  LET hit == {i \in 1..Len(os) : os[i].order_id = order_id /\ os[i].user_id = user_id}
  IN  IF hit = {} THEN [py |-> "dict", found |-> FALSE, order_id |-> order_id]
      ELSE order_dict(ps, os[Min(hit)])

\* the product the two lookups by "ID or name" select: exact id first, then, unless the
\* identifier starts with 'P', the first product whose name ILIKE %identifier%
find_product(ps, product_identifier) ==
  LET byId == {i \in 1..Len(ps) : ps[i].id = product_identifier}
      byName == {i \in 1..Len(ps) : ilike(ps[i].name, <<"%">> \o product_identifier \o <<"%">>)}
  IN  IF byId # {} THEN ps[Min(byId)]
      ELSE IF ~startswith(product_identifier, <<"P">>) /\ byName # {} THEN ps[Min(byName)]
      ELSE [py |-> "None"]

get_product_info(ps, product_identifier) ==
  LET p == find_product(ps, product_identifier)
  IN  IF "id" \in DOMAIN p
      THEN [py |-> "dict", id |-> p.id, name |-> p.name, description |-> p.description,
            pros |-> p.pros, cons |-> p.cons]
      ELSE [py |-> "None"]

get_warranty_info(ps, ws, product_identifier) ==
  LET p == find_product(ps, product_identifier)
      w == IF "id" \in DOMAIN p THEN {i \in 1..Len(ws) : ws[i].id = p.warranty_id} ELSE {}
  IN  IF w # {}
      THEN [py |-> "dict", product |-> p.name, product_id |-> p.id,
            duration_months |-> ws[Min(w)].duration_months, terms |-> ws[Min(w)].terms]
      ELSE [py |-> "None"]

(***************************************************************************)
(* Seed data.                                                              *)
(***************************************************************************)
SeedWarranties(n) ==
  << [id |-> n + 1, duration_months |-> 24, terms |-> <<"H","a","n","y","a"," ","m","e","n","c","a","k","u","p"," ","c","a","c","a","t"," ","p","r","o","d","u","k","s","i",".">>],
     [id |-> n + 2, duration_months |-> 12, terms |-> <<"T","e","r","m","a","s","u","k"," ","p","e","r","l","i","n","d","u","n","g","a","n"," ","k","e","r","u","s","a","k","a","n"," ","t","i","d","a","k"," ","d","i","s","e","n","g","a","j","a",".">>] >>

SeedProducts(n) ==
  << [id |-> <<"P","1","2","3">>, name |-> <<"H","e","a","d","p","h","o","n","e"," ","W","i","r","e","l","e","s","s">>,
      description |-> <<"H","e","a","d","p","h","o","n","e"," ","w","i","r","e","l","e","s","s"," ","b","e","r","k","u","a","l","i","t","a","s"," ","t","i","n","g","g","i"," ","d","e","n","g","a","n"," ","n","o","i","s","e"," ","c","a","n","c","e","l","l","a","t","i","o","n",".">>,
      pros |-> <<"K","u","a","l","i","t","a","s"," ","s","u","a","r","a"," ","y","a","n","g"," ","b","a","g","u","s",";"," ","N","y","a","m","a","n"," ","d","i","p","a","k","a","i",";"," ","B","a","t","e","r","a","i"," ","t","a","h","a","n"," ","l","a","m","a">>,
      cons |-> <<"H","a","r","g","a"," ","m","a","h","a","l",";"," ","C","a","s","e"," ","y","a","n","g"," ","b","e","s","a","r">>, warranty_id |-> n + 1],
     [id |-> <<"P","2","3","4">>, name |-> <<"S","m","a","r","t","p","h","o","n","e"," ","X">>,
      description |-> <<"S","m","a","r","t","p","h","o","n","e"," ","g","e","n","e","r","a","s","i"," ","t","e","r","b","a","r","u"," ","d","e","n","g","a","n"," ","l","a","y","a","r"," ","O","L","E","D"," ","d","a","n"," ","s","i","s","t","e","m"," ","t","r","i","p","l","e"," ","c","a","m","e","r","a",".">>,
      pros |-> <<"K","a","m","e","r","a"," ","s","a","n","g","a","t"," ","b","a","g","u","s",";"," ","P","e","r","f","o","r","m","a"," ","c","e","p","a","t",";"," ","D","e","s","a","i","n"," ","p","r","e","m","i","u","m">>,
      cons |-> <<"H","a","r","g","a"," ","t","i","n","g","g","i",";"," ","T","i","d","a","k"," ","a","d","a"," ","j","a","c","k"," ","h","e","a","d","p","h","o","n","e">>, warranty_id |-> n + 2],
     [id |-> <<"P","3","4","5">>, name |-> <<"G","a","m","i","n","g"," ","L","a","p","t","o","p"," ","P","r","o">>,
      description |-> <<"L","a","p","t","o","p"," ","g","a","m","i","n","g"," ","y","a","n","g"," ","p","o","w","e","r","f","u","l"," ","d","e","n","g","a","n"," ","g","r","a","f","i","s"," ","R","T","X"," ","d","a","n"," ","l","a","y","a","r"," ","h","i","g","h"," ","r","e","f","r","e","s","h",".">>,
      pros |-> <<"G","P","U"," ","t","i","n","g","k","a","t"," ","a","t","a","s",";"," ","S","S","D"," ","c","e","p","a","t",";"," ","S","i","s","t","e","m"," ","p","e","n","d","i","n","g","i","n"," ","y","a","n","g"," ","b","a","i","k">>,
      cons |-> <<"B","e","r","a","t",";"," ","B","a","t","e","r","a","i"," ","c","e","p","a","t"," ","h","a","b","i","s">>, warranty_id |-> n + 1] >>

\* the three orders of the seed; created_at is utcnow() at each insert
SeedOrders(t, step) ==
  << [order_id |-> <<"O","R","D","1","2","3","4","5">>, user_id |-> <<"u","s","e","r","1">>, status |-> <<"S","h","i","p","p","e","d">>,
      tracking |-> <<"T","R","A","C","K","1","2","3">>, created_at |-> t, product_id |-> <<"P","1","2","3">>],
     [order_id |-> <<"O","R","D","2","3","4","5","6">>, user_id |-> <<"u","s","e","r","2">>, status |-> <<"P","r","o","c","e","s","s","i","n","g">>,
      tracking |-> None, created_at |-> t + step, product_id |-> <<"P","2","3","4">>],
     [order_id |-> <<"O","R","D","3","4","5","6","7">>, user_id |-> <<"u","s","e","r","1">>, status |-> <<"D","e","l","i","v","e","r","e","d">>,
      tracking |-> <<"T","R","A","C","K","7","8","9">>, created_at |-> t + 2 * step, product_id |-> <<"P","3","4","5">>] >>

\* seed_database: returns at once when an order exists; otherwise inserts the seed,
\* which fails (and is rolled back) when a seed product is already in the table
seed_database(db, t, step) ==
  IF db.orders # <<>> THEN [db EXCEPT !.ok = TRUE]
  ELSE IF \E i \in 1..Len(db.products) : \E j \in 1..3 : db.products[i].id = SeedProducts(0)[j].id
       THEN [db EXCEPT !.ok = FALSE]
  ELSE [ok |-> TRUE,
        warranties |-> db.warranties \o SeedWarranties(Len(db.warranties)),
        products |-> db.products \o SeedProducts(Len(db.warranties)),
        orders |-> SeedOrders(t, step)]

(***************************************************************************)
(* Python values: None and str wrappers, dicts with their keys.            *)
(***************************************************************************)
PyNone == [py |-> "None"]

PyStr(s) == [py |-> "str", v |-> s]

IsNone(x) == x.py = "None"

IsDict(x) == x.py = "dict"

EmptyKV == [k \in {} |-> None]

\* d[key] = val
kv_set(kv, key, val) == [k \in DOMAIN kv \cup {key} |-> IF k = key THEN val ELSE kv[k]]

\* {"action": action, "action_input": action_input}
ActionDict(action, action_input) ==
  [py |-> "dict", kv |-> kv_set(kv_set(EmptyKV, <<"a","c","t","i","o","n">>, action), <<"a","c","t","i","o","n","_","i","n","p","u","t">>, action_input)]

\* dict.get(key, default)
dict_get(d, key, default) == IF key \in DOMAIN d.kv THEN d.kv[key] ELSE default

\* truth value of a str-or-None
truthy(v) == v # None /\ v # <<>>

\* an f-string field: str(v)
fstr(v) == IF v = None THEN <<"N","o","n","e">> ELSE v

(***************************************************************************)
(* json.loads on the text of one flat JSON object (string, number, null,   *)
(* true and false values; no escapes, no nesting), and json.dumps.         *)
(***************************************************************************)
\* first position >= i of s that holds no whitespace
skip_ws(s, i) == Min({j \in i..(Len(s) + 1) : j = Len(s) + 1 \/ ~IsSpace(s[j])})

char_at(s, i) == IF i \in 1..Len(s) THEN s[i] ELSE "EOF"

JsonFail == [ok |-> FALSE, v |-> None, nxt |-> 0]

\* a string literal that opens at position i
json_string(s, i) ==
  LET close == {j \in (i + 1)..Len(s) : s[j] = "\""}
  IN  IF char_at(s, i) # "\"" \/ close = {} THEN JsonFail
      ELSE LET j == Min(close)
           IN  IF \E k \in (i + 1)..(j - 1) : s[k] = "\\" \/ s[k] = "\n" THEN JsonFail
               ELSE [ok |-> TRUE, v |-> SubSeq(s, i + 1, j - 1), nxt |-> j + 1]

\* a value that starts at position i
json_value(s, i) ==
  IF char_at(s, i) = "\"" THEN json_string(s, i)
  ELSE IF re_lit_at(s, i, <<"n","u","l","l">>, FALSE) THEN [ok |-> TRUE, v |-> None, nxt |-> i + 4]
  ELSE IF re_lit_at(s, i, <<"t","r","u","e">>, FALSE) THEN [ok |-> TRUE, v |-> JsonNumber, nxt |-> i + 4]
  ELSE IF re_lit_at(s, i, <<"f","a","l","s","e">>, FALSE) THEN [ok |-> TRUE, v |-> JsonNumber, nxt |-> i + 5]
  ELSE IF char_at(s, i) \in DIGITS
       THEN [ok |-> TRUE, v |-> JsonNumber, nxt |-> re_digits_end(s, i) + 1]
  ELSE JsonFail

\* the members "key": value, ... } from position i on, added to kv
RECURSIVE json_members(_, _, _)
json_members(s, i, kv) ==
  LET key == json_string(s, skip_ws(s, i))
      colon == skip_ws(s, key.nxt)
      val == json_value(s, skip_ws(s, colon + 1))
      after == skip_ws(s, val.nxt)
  IN  IF ~key.ok \/ char_at(s, colon) # ":" \/ ~val.ok THEN PyNone
      ELSE IF char_at(s, after) = ","
           THEN json_members(s, after + 1, kv_set(kv, key.v, val.v))
      ELSE IF char_at(s, after) = "}" /\ skip_ws(s, after + 1) = Len(s) + 1
           THEN [py |-> "dict", kv |-> kv_set(kv, key.v, val.v)]
      ELSE PyNone

\* json.loads(text) for a text that starts with "{": the dict, or None when it raises
json_loads(s) ==
  LET open == skip_ws(s, 1)
      first == skip_ws(s, open + 1)
  IN  IF char_at(s, open) # "{" THEN PyNone
      ELSE IF char_at(s, first) = "}"
           THEN IF skip_ws(s, first + 1) = Len(s) + 1 THEN [py |-> "dict", kv |-> EmptyKV] ELSE PyNone
      ELSE json_members(s, open + 1, EmptyKV)

\* a JSON string literal as json.dumps writes it
json_dumps_str(s) ==
  LET RECURSIVE esc(_)
      esc(r) == IF r = <<>> THEN <<>>
                ELSE (IF Head(r) = "\"" THEN <<"\\", "\"">>
                      ELSE IF Head(r) = "\\" THEN <<"\\", "\\">>
                      ELSE IF Head(r) = "\n" THEN <<"\\", "n">>
                      ELSE <<Head(r)>>) \o esc(Tail(r))
  IN  IF s = None THEN <<"n","u","l","l">> ELSE <<"\"">> \o esc(s) \o <<"\"">>

\* json.dumps of a tool output
json_dumps_output(o) ==
  IF IsNone(o) THEN <<"n","u","l","l">>
  ELSE IF "error" \in DOMAIN o THEN <<"{","\"","e","r","r","o","r","\"",":"," ">> \o json_dumps_str(o.error) \o <<"}">>
  ELSE IF "found" \in DOMAIN o /\ ~o.found
       THEN <<"{","\"","f","o","u","n","d","\"",":"," ","f","a","l","s","e",","," ","\"","o","r","d","e","r","_","i","d","\"",":"," ">> \o json_dumps_str(o.order_id) \o <<"}">>
  ELSE IF "found" \in DOMAIN o
       THEN <<"{","\"","f","o","u","n","d","\"",":"," ","t","r","u","e",","," ","\"","o","r","d","e","r","_","i","d","\"",":"," ">> \o json_dumps_str(o.order_id)
            \o <<","," ","\"","s","t","a","t","u","s","\"",":"," ">> \o json_dumps_str(o.status)
            \o <<","," ","\"","t","r","a","c","k","i","n","g","\"",":"," ">> \o json_dumps_str(o.tracking)
            \o <<","," ","\"","u","s","e","r","_","i","d","\"",":"," ">> \o json_dumps_str(o.user_id)
            \o <<","," ","\"","p","r","o","d","u","c","t","_","i","d","\"",":"," ">> \o json_dumps_str(o.product_id)
            \o <<","," ","\"","p","r","o","d","u","c","t","_","n","a","m","e","\"",":"," ">> \o json_dumps_str(o.product_name) \o <<"}">>
  ELSE IF "duration_months" \in DOMAIN o
       THEN <<"{","\"","p","r","o","d","u","c","t","\"",":"," ">> \o json_dumps_str(o.product)
            \o <<","," ","\"","p","r","o","d","u","c","t","_","i","d","\"",":"," ">> \o json_dumps_str(o.product_id)
            \o <<","," ","\"","d","u","r","a","t","i","o","n","_","m","o","n","t","h","s","\"",":"," ">> \o str_int(o.duration_months)
            \o <<","," ","\"","t","e","r","m","s","\"",":"," ">> \o json_dumps_str(o.terms) \o <<"}">>
  ELSE <<"{","\"","i","d","\"",":"," ">> \o json_dumps_str(o.id)
       \o <<","," ","\"","n","a","m","e","\"",":"," ">> \o json_dumps_str(o.name)
       \o <<","," ","\"","d","e","s","c","r","i","p","t","i","o","n","\"",":"," ">> \o json_dumps_str(o.description)
       \o <<","," ","\"","p","r","o","s","\"",":"," ">> \o json_dumps_str(o.pros)
       \o <<","," ","\"","c","o","n","s","\"",":"," ">> \o json_dumps_str(o.cons) \o <<"}">>

\* json.dumps({"tool": action, "output": tool_output})
json_dumps_tool(action, tool_output) ==
  <<"{","\"","t","o","o","l","\"",":"," ">> \o json_dumps_str(action) \o <<","," ","\"","o","u","t","p","u","t","\"",":"," ">> \o json_dumps_output(tool_output) \o <<"}">>

(***************************************************************************)
(* Parsing the model's suggestion.                                         *)
(***************************************************************************)
try_parse_json_action(text) ==
  LET opens == {i \in 1..Len(text) : text[i] = "{"}
      closes == {i \in 1..Len(text) : text[i] = "}"}
  IN  IF opens # {} /\ closes # {} /\ Max(closes) > Min(opens)
      THEN json_loads(SubSeq(text, Min(opens), Max(closes)))
      ELSE PyNone

(***************************************************************************)
(* The product pattern cache.  A pattern rf"\b({re.escape(x)})\b" is       *)
(* represented by the literal x that it matches as a whole word.           *)
(***************************************************************************)
\* the cache window in seconds
CacheTTL == 300

\* the words of a name that become patterns of their own
significant_words(name) == SelectSeq(split(lower(name)), LAMBDA word : Len(word) > 3)

\* the patterns one product contributes: its exact name, then its significant words
product_patterns(product) == <<lower(product.name)>> \o significant_words(product.name)

\* the loop over the products: patterns in catalog order, the mapping overwritten in the same order
RECURSIVE build_patterns(_, _)
build_patterns(ps, acc) ==
  IF ps = <<>> THEN acc
  ELSE LET new == product_patterns(Head(ps))
           RECURSIVE put(_, _)
           put(m, k) == IF k > Len(new) THEN m ELSE put(kv_set(m, new[k], Head(ps).name), k + 1)
       IN  build_patterns(Tail(ps), [patterns |-> acc.patterns \o new,
                                     product_mapping |-> put(acc.product_mapping, 1)])

\* a freshness test that still serves the value when exactly a whole window has passed
cache_is_fresh_inclusive(c, ts, t) == ~IsNone(c) /\ ~IsNone(ts) /\ t - ts.v <= CacheTTL

\* the cached value is served when it is younger than the window
cache_is_fresh(c, ts, t) == ~IsNone(c) /\ ~IsNone(ts) /\ t - ts.v < CacheTTL

\* a rebuild that appends to the lists of the expired value instead of starting afresh
get_product_patterns_accumulating(c, ts, t, ps) ==
  IF cache_is_fresh(c, ts, t)
  THEN [value |-> c, cache |-> c, cache_timestamp |-> ts, rebuilt |-> FALSE, expired |-> FALSE]
  ELSE LET start == IF IsNone(c) THEN [patterns |-> <<>>, product_mapping |-> EmptyKV]
                    ELSE [patterns |-> c.patterns, product_mapping |-> c.product_mapping]
           built == [py |-> "tuple"] @@ build_patterns(ps, start)
       IN  [value |-> built, cache |-> built, cache_timestamp |-> [py |-> "float", v |-> t],
            rebuilt |-> TRUE, expired |-> ~IsNone(c)]

\* get_product_patterns at time t: the value returned and the cache it leaves
\* (rebuilt: the value was built by this call; expired: it replaced a cached value)
get_product_patterns(c, ts, t, ps) ==
  IF cache_is_fresh(c, ts, t)
  THEN [value |-> c, cache |-> c, cache_timestamp |-> ts, rebuilt |-> FALSE, expired |-> FALSE]
  ELSE LET built == [py |-> "tuple"]
                    @@ build_patterns(ps, [patterns |-> <<>>, product_mapping |-> EmptyKV])
       IN  [value |-> built, cache |-> built, cache_timestamp |-> [py |-> "float", v |-> t],
            rebuilt |-> TRUE, expired |-> ~IsNone(c)]

(***************************************************************************)
(* Entity extraction, the fallback classifier and the warranty safeguard.  *)
(***************************************************************************)
\* the first pattern of the list that matches the message
first_pattern_match(pattern_list, message) ==
  LET hits == {k \in 1..Len(pattern_list) : re_search_word(pattern_list[k], message) # None}
  IN  IF hits = {} THEN 0 ELSE Min(hits)

\* extract_patterns, given the value get_product_patterns returned; each entry is the
\* matched text (group 1) or None
extract_patterns(message, pats) ==
  LET k == first_pattern_match(pats.patterns, message)
  IN  [order_id |-> re_search_prefix_digits(<<"O","R","D">>, message, TRUE),
       product_id |-> re_search_prefix_digits(<<"P">>, message, TRUE),
       product_name |-> IF k = 0 THEN None ELSE re_search_word(pats.patterns[k], message),
       matched_product |-> IF k = 0 THEN None ELSE pats.product_mapping[pats.patterns[k]]]

OrderIntentPhrases ==
  <<<<"p","e","s","a","n","a","n"," ","s","a","y","a">>, <<"s","t","a","t","u","s"," ","p","e","s","a","n","a","n">>, <<"d","i","m","a","n","a"," ","p","e","s","a","n","a","n">>, <<"m","y"," ","o","r","d","e","r">>, <<"o","r","d","e","r"," ","s","t","a","t","u","s">>>>

FallbackWarrantyWords == <<<<"g","a","r","a","n","s","i">>, <<"w","a","r","r","a","n","t","y">>, <<"g","u","a","r","a","n","t","e","e">>, <<"j","a","m","i","n","a","n">>>>

ProductInfoWords ==
  <<<<"k","e","l","e","b","i","h","a","n">>, <<"k","e","k","u","r","a","n","g","a","n">>, <<"d","e","s","k","r","i","p","s","i">>, <<"d","e","t","a","i","l">>, <<"p","r","o","s">>, <<"c","o","n","s">>,
    <<"d","e","s","c","r","i","p","t","i","o","n">>, <<"a","b","o","u","t">>, <<"i","n","f","o">>>>

\* a classifier that tries the warranty rule before the order rules
determine_fallback_action_warranty_first(message, patterns) ==
  IF re_search_words(FallbackWarrantyWords, message, TRUE) /\ patterns.product_id # None
  THEN ActionDict(<<"g","e","t","_","w","a","r","r","a","n","t","y","_","i","n","f","o">>, patterns.product_id)
  ELSE IF patterns.order_id # None
  THEN ActionDict(<<"g","e","t","_","o","r","d","e","r","_","s","t","a","t","u","s">>, patterns.order_id)
  ELSE PyNone

determine_fallback_action(message, patterns) ==
  IF patterns.order_id # None
  THEN ActionDict(<<"g","e","t","_","o","r","d","e","r","_","s","t","a","t","u","s">>, patterns.order_id)
  ELSE IF re_search_words(OrderIntentPhrases, message, TRUE)
  THEN ActionDict(<<"g","e","t","_","o","r","d","e","r","_","s","t","a","t","u","s">>, <<>>)
  ELSE IF re_search_words(FallbackWarrantyWords, message, TRUE) /\ patterns.product_id # None
  THEN ActionDict(<<"g","e","t","_","w","a","r","r","a","n","t","y","_","i","n","f","o">>, patterns.product_id)
  ELSE IF re_search_words(FallbackWarrantyWords, message, TRUE) /\ patterns.product_name # None
  THEN ActionDict(<<"g","e","t","_","w","a","r","r","a","n","t","y","_","i","n","f","o">>, patterns.product_name)
  ELSE IF re_search_words(ProductInfoWords, message, TRUE) /\ patterns.product_id # None
  THEN ActionDict(<<"g","e","t","_","p","r","o","d","u","c","t","_","i","n","f","o">>, patterns.product_id)
  ELSE IF re_search_words(ProductInfoWords, message, TRUE) /\ patterns.product_name # None
  THEN ActionDict(<<"g","e","t","_","p","r","o","d","u","c","t","_","i","n","f","o">>, patterns.product_name)
  ELSE PyNone

SafeguardWarrantyWords == <<<<"g","a","r","a","n","s","i">>, <<"w","a","r","r","a","n","t","y">>>>

\* the first product id \bP\d+\b in the contents of the supplied turns, or None
RECURSIVE history_product(_)
history_product(last_messages) ==
  IF last_messages = <<>> THEN None
  ELSE LET pm == re_search_b_P_digits_b(Head(last_messages).content)
       IN  IF pm # None THEN pm ELSE history_product(Tail(last_messages))

\* a safeguard that gives up without the clarification sentinel
handle_warranty_safeguard_no_sentinel(message, last_messages, last_order) ==
  LET product_match == re_search_b_P_digits_b(message)
      from_order == IF "product_id" \in DOMAIN last_order THEN last_order.product_id ELSE None
      chosen_product == IF truthy(from_order) THEN from_order ELSE history_product(last_messages)
  IN  IF ~re_search_words(SafeguardWarrantyWords, message, TRUE) THEN PyNone
      ELSE IF product_match # None THEN ActionDict(<<"g","e","t","_","w","a","r","r","a","n","t","y","_","i","n","f","o">>, product_match)
      ELSE IF truthy(chosen_product) THEN ActionDict(<<"g","e","t","_","w","a","r","r","a","n","t","y","_","i","n","f","o">>, chosen_product)
      ELSE PyNone

\* a safeguard that consults the latest order and the history before the message's own id
handle_warranty_safeguard_context_first(message, last_messages, last_order) ==
  LET product_match == re_search_b_P_digits_b(message)
      from_order == IF "product_id" \in DOMAIN last_order THEN last_order.product_id ELSE None
      chosen_product == IF truthy(from_order) THEN from_order ELSE history_product(last_messages)
  IN  IF ~re_search_words(SafeguardWarrantyWords, message, TRUE) THEN PyNone
      ELSE IF truthy(chosen_product) THEN ActionDict(<<"g","e","t","_","w","a","r","r","a","n","t","y","_","i","n","f","o">>, chosen_product)
      ELSE IF product_match # None THEN ActionDict(<<"g","e","t","_","w","a","r","r","a","n","t","y","_","i","n","f","o">>, product_match)
      ELSE PyStr(<<"a","s","k","_","p","r","o","d","u","c","t">>)

\* a safeguard that scans the supplied history before it consults the latest order
handle_warranty_safeguard_history_first(message, last_messages, last_order) ==
  LET product_match == re_search_b_P_digits_b(message)
      from_order == IF "product_id" \in DOMAIN last_order THEN last_order.product_id ELSE None
      from_history == history_product(last_messages)
      chosen_product == IF truthy(from_history) THEN from_history ELSE from_order
  IN  IF ~re_search_words(SafeguardWarrantyWords, message, TRUE) THEN PyNone
      ELSE IF product_match # None THEN ActionDict(<<"g","e","t","_","w","a","r","r","a","n","t","y","_","i","n","f","o">>, product_match)
      ELSE IF truthy(chosen_product) THEN ActionDict(<<"g","e","t","_","w","a","r","r","a","n","t","y","_","i","n","f","o">>, chosen_product)
      ELSE PyStr(<<"a","s","k","_","p","r","o","d","u","c","t">>)

\* handle_warranty_safeguard; last_order is what the query for the user's latest order returned
handle_warranty_safeguard(message, last_messages, last_order) ==
  LET product_match == re_search_b_P_digits_b(message)
      from_order == IF "product_id" \in DOMAIN last_order THEN last_order.product_id ELSE None
      chosen_product == IF truthy(from_order) THEN from_order ELSE history_product(last_messages)
  IN  IF ~re_search_words(SafeguardWarrantyWords, message, TRUE) THEN PyNone
      ELSE IF product_match # None THEN ActionDict(<<"g","e","t","_","w","a","r","r","a","n","t","y","_","i","n","f","o">>, product_match)
      ELSE IF truthy(chosen_product) THEN ActionDict(<<"g","e","t","_","w","a","r","r","a","n","t","y","_","i","n","f","o">>, chosen_product)
      ELSE PyStr(<<"a","s","k","_","p","r","o","d","u","c","t">>)

(***************************************************************************)
(* The replies.                                                            *)
(***************************************************************************)
ReplyAskProduct == <<"P","r","o","d","u","k"," ","m","a","n","a"," ","y","a","n","g"," ","i","n","g","i","n"," ","A","n","d","a"," ","k","e","t","a","h","u","i"," ","i","n","f","o","r","m","a","s","i"," ","g","a","r","a","n","s","i","n","y","a","?">>

\* a status sentence that leaves the tracking value out
reply_order_without_tracking(tool_output) ==
  IF tool_output.found
  THEN <<"P","e","s","a","n","a","n"," ">> \o fstr(tool_output.order_id) \o <<" ","s","a","a","t"," ","i","n","i"," ","b","e","r","s","t","a","t","u","s",":"," ">>
       \o fstr(tool_output.status) \o <<".">>
  ELSE <<"A","n","d","a"," ","t","i","d","a","k"," ","m","e","m","i","l","i","k","i"," ","p","e","s","a","n","a","n"," ","d","e","n","g","a","n"," ","n","o","m","o","r"," ","t","e","r","s","e","b","u","t",".">>

reply_order(tool_output) ==
  IF tool_output.found
  THEN <<"P","e","s","a","n","a","n"," ">> \o fstr(tool_output.order_id) \o <<" ","s","a","a","t"," ","i","n","i"," ","b","e","r","s","t","a","t","u","s",":"," ">>
       \o fstr(tool_output.status) \o <<".">>
       \o (IF truthy(tool_output.tracking) THEN <<" ","T","r","a","c","k","i","n","g",":"," ">> \o tool_output.tracking \o <<".">>
           ELSE <<>>)
  ELSE <<"A","n","d","a"," ","t","i","d","a","k"," ","m","e","m","i","l","i","k","i"," ","p","e","s","a","n","a","n"," ","d","e","n","g","a","n"," ","n","o","m","o","r"," ","t","e","r","s","e","b","u","t",".">>

reply_warranty(tool_output, action_input) ==
  IF IsDict(tool_output)
  THEN <<"A","n","d","a"," ","d","a","p","a","t"," ","m","e","n","g","k","l","a","i","m"," ","g","a","r","a","n","s","i"," ","d","e","n","g","a","n"," ","m","e","n","g","i","r","i","m"," ","e","m","a","i","l"," ","k","e"," ","w","a","r","r","a","n","t","y","@","c","o","m","p","a","n","y",".","c","o","m","."," ","P","a","s","t","i","k","a","n"," ","k","l","a","i","m"," ","A","n","d","a"," ","s","e","s","u","a","i"," ","d","e","n","g","a","n"," ","d","e","t","a","i","l"," ","g","a","r","a","n","s","i"," ","p","r","o","d","u","k","."," ","D","e","t","a","i","l","n","y","a"," ","a","d","a","l","a","h"," ","s","e","b","a","g","a","i"," ","b","e","r","i","k","u","t",".","\n","\n","P","r","o","d","u","k"," ">>
       \o fstr(tool_output.product) \o <<" ","m","e","m","i","l","i","k","i"," ","g","a","r","a","n","s","i"," ","s","e","l","a","m","a"," ">>
       \o str_int(tool_output.duration_months) \o <<" ","b","u","l","a","n","."," ","K","e","t","e","n","t","u","a","n",":"," ">> \o fstr(tool_output.terms)
  ELSE <<"M","a","a","f"," ","-"," ","s","a","y","a"," ","t","i","d","a","k"," ","d","a","p","a","t"," ","m","e","n","e","m","u","k","a","n"," ","i","n","f","o","r","m","a","s","i"," ","g","a","r","a","n","s","i"," ","u","n","t","u","k"," ","p","r","o","d","u","k"," ">> \o fstr(action_input) \o <<".">>

ProsWords == <<<<"k","e","l","e","b","i","h","a","n">>, <<"k","e","u","n","g","g","u","l","a","n">>, <<"p","r","o","s">>, <<"a","d","v","a","n","t","a","g","e">>>>

ConsWords == <<<<"k","e","k","u","r","a","n","g","a","n">>, <<"k","e","l","e","m","a","h","a","n">>, <<"c","o","n","s">>, <<"d","i","s","a","d","v","a","n","t","a","g","e">>>>

DescriptionWords == <<<<"d","e","s","k","r","i","p","s","i">>, <<"d","e","s","c","r","i","p","t","i","o","n">>, <<"d","e","t","a","i","l">>, <<"t","e","n","t","a","n","g">>, <<"a","b","o","u","t">>>>

\* a product reply that tests the description keywords before the pros and cons keywords
reply_product_description_first(tool_output, action_input, user_message) ==
  LET msg_lower == lower(user_message)
  IN  IF ~IsDict(tool_output)
      THEN <<"M","a","a","f"," ","-"," ","s","a","y","a"," ","t","i","d","a","k"," ","d","a","p","a","t"," ","m","e","n","e","m","u","k","a","n"," ","i","n","f","o","r","m","a","s","i"," ","p","r","o","d","u","k"," ","u","n","t","u","k"," ">> \o fstr(action_input) \o <<".">>
      ELSE IF re_search_words(DescriptionWords, msg_lower, FALSE)
      THEN <<"D","e","s","k","r","i","p","s","i"," ">> \o fstr(tool_output.name) \o <<":"," ">> \o fstr(tool_output.description)
      ELSE IF re_search_words(ProsWords, msg_lower, FALSE)
      THEN <<"K","e","l","e","b","i","h","a","n"," ">> \o fstr(tool_output.name) \o <<":"," ">> \o fstr(tool_output.pros)
      ELSE IF re_search_words(ConsWords, msg_lower, FALSE)
      THEN <<"K","e","k","u","r","a","n","g","a","n"," ">> \o fstr(tool_output.name) \o <<":"," ">> \o fstr(tool_output.cons)
      ELSE <<"P","r","o","d","u","k"," ">> \o fstr(tool_output.name) \o <<" ","(","I","D",":"," ">> \o fstr(tool_output.id)
           \o <<")",".","\n","D","e","s","k","r","i","p","s","i",":"," ">> \o fstr(tool_output.description)
           \o <<"\n","K","e","l","e","b","i","h","a","n",":"," ">> \o fstr(tool_output.pros)
           \o <<"\n","K","e","k","u","r","a","n","g","a","n",":"," ">> \o fstr(tool_output.cons)

reply_product(tool_output, action_input, user_message) ==
  LET msg_lower == lower(user_message)
  IN  IF ~IsDict(tool_output)
      THEN <<"M","a","a","f"," ","-"," ","s","a","y","a"," ","t","i","d","a","k"," ","d","a","p","a","t"," ","m","e","n","e","m","u","k","a","n"," ","i","n","f","o","r","m","a","s","i"," ","p","r","o","d","u","k"," ","u","n","t","u","k"," ">> \o fstr(action_input) \o <<".">>
      ELSE IF re_search_words(ProsWords, msg_lower, FALSE)
      THEN <<"K","e","l","e","b","i","h","a","n"," ">> \o fstr(tool_output.name) \o <<":"," ">> \o fstr(tool_output.pros)
      ELSE IF re_search_words(ConsWords, msg_lower, FALSE)
      THEN <<"K","e","k","u","r","a","n","g","a","n"," ">> \o fstr(tool_output.name) \o <<":"," ">> \o fstr(tool_output.cons)
      ELSE IF re_search_words(DescriptionWords, msg_lower, FALSE)
      THEN <<"D","e","s","k","r","i","p","s","i"," ">> \o fstr(tool_output.name) \o <<":"," ">> \o fstr(tool_output.description)
      ELSE <<"P","r","o","d","u","k"," ">> \o fstr(tool_output.name) \o <<" ","(","I","D",":"," ">> \o fstr(tool_output.id)
           \o <<")",".","\n","D","e","s","k","r","i","p","s","i",":"," ">> \o fstr(tool_output.description)
           \o <<"\n","K","e","l","e","b","i","h","a","n",":"," ">> \o fstr(tool_output.pros)
           \o <<"\n","K","e","k","u","r","a","n","g","a","n",":"," ">> \o fstr(tool_output.cons)

reply_unsupported(action) == <<"T","o","o","l"," ","'">> \o fstr(action) \o <<"'"," ","y","a","n","g"," ","d","i","m","i","n","t","a"," ","t","i","d","a","k"," ","d","i","d","u","k","u","n","g",".">>

(***************************************************************************)
(* POST /chat.                                                             *)
(***************************************************************************)
\* the order a get_order_status with an empty input reports: the first ORD\d+ of the
\* fetched turns, looked up among the user's orders, else the user's latest order
RECURSIVE history_order(_)
history_order(last_messages) ==
  IF last_messages = <<>> THEN None
  ELSE LET h == re_search_prefix_digits(<<"O","R","D">>, Head(last_messages).content, FALSE)
       IN  IF h # None THEN h ELSE history_order(Tail(last_messages))

\* a recovery that reports the user's latest order before it looks at the fetched turns
order_from_context_latest_first(os, ps, user_id, last_messages, latest_order) ==
  LET last_order_id == history_order(last_messages)
  IN  IF "order_id" \in DOMAIN latest_order THEN order_dict(ps, latest_order)
      ELSE IF truthy(last_order_id) THEN get_user_order_status(os, ps, user_id, last_order_id)
      ELSE [py |-> "dict", found |-> FALSE, order_id |-> None]

order_from_context(os, ps, user_id, last_messages, latest_order) ==
  LET last_order_id == history_order(last_messages)
  IN  IF truthy(last_order_id) THEN get_user_order_status(os, ps, user_id, last_order_id)
      ELSE IF "order_id" \in DOMAIN latest_order THEN order_dict(ps, latest_order)
      ELSE [py |-> "dict", found |-> FALSE, order_id |-> None]

\* there is no action, or it is the "none" sentinel: the fallback is to run
needs_fallback(action_json) ==
  \/ IsNone(action_json)
  \/ DOMAIN action_json.kv = {}
  \/ dict_get(action_json, <<"a","c","t","i","o","n">>, None) = <<"n","o","n","e">>

\* a resolver whose result yields to a concrete suggestion of the model
resolve_action_model_first(parsed, warranty_result) ==
  IF IsDict(parsed) /\ ~needs_fallback(parsed) THEN parsed
  ELSE IF IsDict(warranty_result) THEN warranty_result ELSE parsed

\* the parsed suggestion, replaced by the safeguard's action when it gives one
resolve_action(parsed, warranty_result) ==
  IF IsDict(warranty_result) THEN warranty_result ELSE parsed

\* the action is to be executed
has_action(action_json) ==
  /\ IsDict(action_json)
  /\ truthy(dict_get(action_json, <<"a","c","t","i","o","n">>, None))
  /\ dict_get(action_json, <<"a","c","t","i","o","n">>, None) # <<"n","o","n","e">>

\* a tool call that raises for a tool it does not know
execute_tool_raises_on_unknown(os, ps, ws, user_id, action, action_input, last_messages, latest_order) ==
  IF action = <<"g","e","t","_","o","r","d","e","r","_","s","t","a","t","u","s">>
  THEN IF ~IsStr(action_input) THEN [raised |-> TRUE, output |-> PyNone]
       ELSE [raised |-> FALSE,
             output |-> IF strip(action_input) = <<>>
                        THEN order_from_context(os, ps, user_id, last_messages, latest_order)
                        ELSE get_user_order_status(os, ps, user_id, strip(action_input))]
  ELSE IF action = <<"g","e","t","_","w","a","r","r","a","n","t","y","_","i","n","f","o">>
  THEN IF ~IsStr(action_input) THEN [raised |-> TRUE, output |-> PyNone]
       ELSE [raised |-> FALSE, output |-> get_warranty_info(ps, ws, action_input)]
  ELSE IF action = <<"g","e","t","_","p","r","o","d","u","c","t","_","i","n","f","o">>
  THEN IF ~IsStr(action_input) THEN [raised |-> TRUE, output |-> PyNone]
       ELSE [raised |-> FALSE, output |-> get_product_info(ps, action_input)]
  ELSE [raised |-> TRUE, output |-> PyNone]

\* the tool call: its output, or a raised exception
execute_tool(os, ps, ws, user_id, action, action_input, last_messages, latest_order) ==
  IF action = <<"g","e","t","_","o","r","d","e","r","_","s","t","a","t","u","s">>
  THEN IF ~IsStr(action_input) THEN [raised |-> TRUE, output |-> PyNone]
       ELSE [raised |-> FALSE,
             output |-> IF strip(action_input) = <<>>
                        THEN order_from_context(os, ps, user_id, last_messages, latest_order)
                        ELSE get_user_order_status(os, ps, user_id, strip(action_input))]
  ELSE IF action = <<"g","e","t","_","w","a","r","r","a","n","t","y","_","i","n","f","o">>
  THEN IF ~IsStr(action_input) THEN [raised |-> TRUE, output |-> PyNone]
       ELSE [raised |-> FALSE, output |-> get_warranty_info(ps, ws, action_input)]
  ELSE IF action = <<"g","e","t","_","p","r","o","d","u","c","t","_","i","n","f","o">>
  THEN IF ~IsStr(action_input) THEN [raised |-> TRUE, output |-> PyNone]
       ELSE [raised |-> FALSE, output |-> get_product_info(ps, action_input)]
  ELSE [raised |-> FALSE, output |-> [py |-> "dict", error |-> <<"u","n","s","u","p","p","o","r","t","e","d","_","t","o","o","l">>]]

format_reply(action, action_input, tool_output, user_message) ==
  IF action = <<"g","e","t","_","o","r","d","e","r","_","s","t","a","t","u","s">> THEN reply_order(tool_output)
  ELSE IF action = <<"g","e","t","_","w","a","r","r","a","n","t","y","_","i","n","f","o">> THEN reply_warranty(tool_output, action_input)
  ELSE IF action = <<"g","e","t","_","p","r","o","d","u","c","t","_","i","n","f","o">> THEN reply_product(tool_output, action_input, user_message)
  ELSE reply_unsupported(action)

NoTrace == [py |-> "None"]

\* the request has made one more call: c.steps lists the calls of chat() in order
Did(c, call) == [c EXCEPT !.steps = Append(@, call)]

\* One /chat request, stage by stage.  c is what the request holds so far: its inputs
\* (user_id, message, llm: what the gateway call does, last_rows and latest_order: what
\* the two ORDER BY created_at queries select), then the value of each local variable.
\* Every stage returns the state the request leaves: store, clock, cache, response.
chat_result(c, log, t, c_cache, c_timestamp, status_code, reply, tool_called, tool_output, stage) ==
  [messages |-> log, now |-> t, cache |-> c_cache, cache_timestamp |-> c_timestamp,
   resp |-> [op |-> "chat", status_code |-> status_code, reply |-> reply,
             tool_called |-> tool_called, tool_output |-> tool_output],
   trace |-> [x \in DOMAIN c \ {"log", "last_messages", "latest_order", "tool", "overridden",
                                "action_json", "cache", "cache_timestamp"} |-> c[x]]
             @@ [stage |-> stage]]

\* a request that stores the reply before the tool output
chat_reply_before_tool(c) ==
  IF c.tool.raised
  THEN chat_result(c, c.log, now + clock_step, c.cache, c.cache_timestamp,
                   500, None, None, PyNone, "tool_error")
  ELSE LET assistant_reply == format_reply(c.action, c.action_input, c.tool.output, c.message)
       IN  chat_result(Did(Did(c, "persist_message"), "persist_message"),
                       persist_message(
                         persist_message(c.log, c.user_id, "assistant", assistant_reply,
                                         now + clock_step),
                         c.user_id, "tool", json_dumps_tool(c.action, c.tool.output),
                         now + 2 * clock_step),
                       now + 3 * clock_step, c.cache, c.cache_timestamp,
                       200, assistant_reply, c.action, c.tool.output, "tool")

\* persisting the tool output and the reply, and the response
chat_reply(c) ==
  IF c.tool.raised
  THEN chat_result(c, c.log, now + clock_step, c.cache, c.cache_timestamp,
                   500, None, None, PyNone, "tool_error")
  ELSE LET assistant_reply == format_reply(c.action, c.action_input, c.tool.output, c.message)
       IN  chat_result(Did(Did(c, "persist_message"), "persist_message"),
                       persist_message(
                         persist_message(c.log, c.user_id, "tool",
                                         json_dumps_tool(c.action, c.tool.output),
                                         now + clock_step),
                         c.user_id, "assistant", assistant_reply, now + 2 * clock_step),
                       now + 3 * clock_step, c.cache, c.cache_timestamp,
                       200, assistant_reply, c.action, c.tool.output, "tool")

\* executing the tool of the action, or answering with the model's text when there is none
chat_execute(c) ==
  IF ~has_action(c.action_json)
  THEN chat_result(Did(c, "persist_message"),
                   persist_message(c.log, c.user_id, "assistant", c.llm.text,
                                   now + clock_step),
                   now + 2 * clock_step, c.cache, c.cache_timestamp,
                   200, c.llm.text, None, PyNone, "no_action")
  ELSE chat_reply(Did(c, "execute_tool")
                  @@ [tool |-> execute_tool(orders, products, warranties, c.user_id,
                                            c.action, c.action_input, c.last_messages,
                                            c.latest_order)])

\* the action and its input as the tool code reads them
chat_action(c) ==
  chat_execute(c @@ [action |-> IF has_action(c.action_json)
                                THEN dict_get(c.action_json, <<"a","c","t","i","o","n">>, None) ELSE None,
                     action_input |-> IF has_action(c.action_json)
                                      THEN dict_get(c.action_json, <<"a","c","t","i","o","n","_","i","n","p","u","t">>, <<>>)
                                      ELSE None])

\* the fallback, run on the patterns extracted with the cached pattern list
chat_classify(c) ==
  chat_action(c @@ [fallback |-> c.action_json])

\* the entities of the message, extracted with the cached pattern list
chat_extract(c) ==
  chat_classify(c @@ [action_json |-> determine_fallback_action(c.message, c.patterns)])

\* the pattern list, from the cache or rebuilt
chat_patterns(pats, c) ==
  chat_extract(c @@ [patterns |-> extract_patterns(c.message, pats.value),
                     rebuilt |-> pats.rebuilt, expired |-> pats.expired,
                     cache |-> pats.cache, cache_timestamp |-> pats.cache_timestamp])

\* the fallback when the action is missing or "none"
chat_fallback(c) ==
  IF c.fallback_invoked
  THEN chat_patterns(get_product_patterns(cache, cache_timestamp, now + clock_step,
                                           products),
                     Did(Did(c, "extract_patterns"), "determine_fallback_action"))
  ELSE chat_action(c @@ [patterns |-> PyNone, fallback |-> PyNone, rebuilt |-> FALSE,
                         expired |-> FALSE, cache |-> cache,
                         cache_timestamp |-> cache_timestamp,
                         action_json |-> c.overridden])

\* whether the fallback is to run
chat_override(c) ==
  chat_fallback(c @@ [fallback_invoked |-> needs_fallback(c.overridden)])

\* the warranty safeguard: the clarification, or its action in place of the model's
chat_safeguard(c) ==
  IF c.warranty_result.py = "str"
  THEN chat_result(Did(c, "persist_message"),
                   persist_message(c.log, c.user_id, "assistant", ReplyAskProduct,
                                   now + clock_step),
                   now + 2 * clock_step, cache, cache_timestamp,
                   200, ReplyAskProduct, None, PyNone, "ask_product")
  ELSE chat_override(c @@ [overridden |-> resolve_action(c.parsed, c.warranty_result)])

\* a request that answers a failed gateway call with an apology it stores
chat_ask_answers_on_failure(c) ==
  IF ~c.llm.ok
  THEN chat_result(Did(Did(c, "llm.ask"), "persist_message"),
                   persist_message(c.log, c.user_id, "assistant", ReplyAskProduct,
                                   now + clock_step),
                   now + 2 * clock_step, cache, cache_timestamp,
                   200, ReplyAskProduct, None, PyNone, "llm_error")
  ELSE chat_safeguard(Did(Did(Did(c, "llm.ask"), "try_parse_json_action"),
                          "handle_warranty_safeguard")
                      @@ [parsed |-> try_parse_json_action(c.llm.text),
                            warranty_result |-> handle_warranty_safeguard(
                                                  c.message, c.last_messages,
                                                  c.latest_order)])

\* a request that asks the gateway a second time when the first call raised
chat_ask_retries(c) ==
  IF ~c.llm.ok
  THEN chat_result(Did(Did(c, "llm.ask"), "llm.ask"), c.log, now + clock_step, cache,
                   cache_timestamp, 500, None, None, PyNone, "llm_error")
  ELSE chat_safeguard(Did(Did(Did(c, "llm.ask"), "try_parse_json_action"),
                          "handle_warranty_safeguard")
                      @@ [parsed |-> try_parse_json_action(c.llm.text),
                            warranty_result |-> handle_warranty_safeguard(
                                                  c.message, c.last_messages,
                                                  c.latest_order)])

\* the gateway call, the parse of its text and the safeguard's verdict
chat_ask(c) ==
  IF ~c.llm.ok
  THEN chat_result(Did(c, "llm.ask"), c.log, now + clock_step, cache, cache_timestamp,
                   500, None, None, PyNone, "llm_error")
  ELSE chat_safeguard(Did(Did(Did(c, "llm.ask"), "try_parse_json_action"),
                          "handle_warranty_safeguard")
                      @@ [parsed |-> try_parse_json_action(c.llm.text),
                            warranty_result |-> handle_warranty_safeguard(
                                                  c.message, c.last_messages,
                                                  c.latest_order)])

\* the user turn is stored and the recent history fetched
chat_history(c) ==
  chat_ask(Did(c, "get_last_n_messages")
           @@ [last_messages |-> get_last_n_messages(c.log, c.last_rows)])

chat(user_id, message, llm, last_rows, latest_order) ==
  chat_history([py |-> "dict", user_id |-> user_id, message |-> strip(message), llm |-> llm,
                last_rows |-> last_rows, latest_order |-> latest_order,
                steps |-> <<"persist_message">>,
                log |-> persist_message(messages, user_id, "user", strip(message), now)])

(***************************************************************************)
(* The requests the model sends.                                           *)
(***************************************************************************)
User1 == <<"u","s","e","r","1">>

User2 == <<"u","s","e","r","2">>

User3 == <<"u","s","e","r","3">>

Users == {User1, User2, User3}

MsgWarrantyId == <<"g","a","r","a","n","s","i"," ","P","1","2","3">>

MsgWarranty == <<"g","a","r","a","n","s","i">>

MsgWarrantyLowerId == <<"g","a","r","a","n","s","i"," ","p","2","3","4">>

MsgMixed == <<"i","n","f","o"," ","j","a","m","i","n","a","n"," ","l","a","p","t","o","p"," ","P","2","3","4"," ","o","r","d","1","2","3","4","5">>

MsgOrder == <<"O","R","D","1","2","3","4","5"," ","s","u","d","a","h"," ","s","a","m","p","a","i"," ","b","e","l","u","m","?">>

MsgPros == <<"a","p","a"," ","k","e","l","e","b","i","h","a","n"," ","h","e","a","d","p","h","o","n","e">>

MsgMyOrder == <<" ","s","t","a","t","u","s"," ","p","e","s","a","n","a","n"," ">>

MsgHello == <<"h","a","l","o">>

MsgInfoUnknown == <<"i","n","f","o"," ","P","9","9","9">>

\* what the gateway call does: it raises, or it returns a text
LLMFail == [ok |-> FALSE, text |-> <<>>]

LLMPlain == [ok |-> TRUE, text |-> <<"A","d","a"," ","y","a","n","g"," ","b","i","s","a"," ","s","a","y","a"," ","b","a","n","t","u","?">>]

LLMNone == [ok |-> TRUE, text |-> <<"{","\"","a","c","t","i","o","n","\"",":","\"","n","o","n","e","\"",",","\"","a","c","t","i","o","n","_","i","n","p","u","t","\"",":","\"","\"","}","\n","A","d","a"," ","y","a","n","g"," ","b","i","s","a"," ","s","a","y","a"," ","b","a","n","t","u","?">>]

LLMOrder == [ok |-> TRUE, text |-> <<"{","\"","a","c","t","i","o","n","\"",":","\"","g","e","t","_","o","r","d","e","r","_","s","t","a","t","u","s","\"",",","\"","a","c","t","i","o","n","_","i","n","p","u","t","\"",":","\"","O","R","D","2","3","4","5","6","\"","}","\n","S","a","y","a"," ","c","e","k",".">>]

LLMNullInput == [ok |-> TRUE, text |-> <<"{","\"","a","c","t","i","o","n","\"",":","\"","g","e","t","_","o","r","d","e","r","_","s","t","a","t","u","s","\"",",","\"","a","c","t","i","o","n","_","i","n","p","u","t","\"",":","n","u","l","l","}">>]

LLMMalformed == [ok |-> TRUE, text |-> <<"B","a","i","k"," ","{","\"","a","c","t","i","o","n","\"",":"," ","g","e","t","_","o","r","d","e","r","_","s","t","a","t","u","s","}">>]

LLMNoAction == [ok |-> TRUE, text |-> <<"{","\"","r","e","p","l","y","\"",":","\"","h","a","l","o","\"","}">>]

LLMNoInput == [ok |-> TRUE, text |-> <<"{","\"","a","c","t","i","o","n","\"",":","\"","g","e","t","_","w","a","r","r","a","n","t","y","_","i","n","f","o","\"","}">>]

LLMUnknownTool == [ok |-> TRUE, text |-> <<"{","\"","a","c","t","i","o","n","\"",":","\"","c","a","n","c","e","l","_","o","r","d","e","r","\"",",","\"","a","c","t","i","o","n","_","i","n","p","u","t","\"",":","\"","O","R","D","1","2","3","4","5","\"","}","\n","B","a","i","k",".">>]

LLMReturns ==
  {LLMPlain, LLMNone, LLMOrder, LLMNullInput, LLMMalformed, LLMNoAction, LLMNoInput,
   LLMUnknownTool}

\* the requests: <<user_id, message, what the gateway does>>
Requests ==
  ({User1} \X {MsgWarrantyId, MsgHello} \X LLMReturns)
  \cup ({User3} \X {MsgWarrantyId} \X {LLMOrder})
  \cup ({User1, User3} \X {MsgWarranty} \X {LLMPlain, LLMOrder})
  \cup ({User1} \X {MsgMixed} \X {LLMPlain, LLMNone, LLMFail})
  \cup ({User1, User2} \X {MsgOrder} \X {LLMPlain})
  \cup ({User1, User2} \X {MsgOrder} \X {LLMNoAction})
  \cup ({User2} \X {MsgMyOrder} \X {LLMPlain})
  \cup ({User2} \X {MsgHello} \X {LLMOrder})
  \cup ({User1} \X {MsgPros, MsgMyOrder, MsgWarrantyLowerId, MsgInfoUnknown} \X {LLMPlain})

(***************************************************************************)
(* The state machine.                                                      *)
(***************************************************************************)
\* startup_event on an empty database: the tables are created and seeded
Init ==
  /\ clock_step \in {0, 1}
  /\ messages = <<>>
  /\ warranties = SeedWarranties(0)
  /\ products = SeedProducts(0)
  /\ orders = SeedOrders(0, clock_step)
  /\ now = 3 * clock_step
  /\ cache = PyNone
  /\ cache_timestamp = PyNone
  /\ resp = [op |-> "startup", status_code |-> 200]
  /\ trace = NoTrace
  /\ served = 0

\* one more request is admitted, and counted
Serve == served < MaxRequests /\ served' = served + 1

\* the request's effects on the store, the cache, the clock and the response
chat_commit(r) ==
  /\ messages' = r.messages
  /\ now' = r.now
  /\ cache' = r.cache
  /\ cache_timestamp' = r.cache_timestamp
  /\ resp' = r.resp
  /\ trace' = r.trace

Chat ==
  /\ Serve
  /\ Len(messages) <= MaxLog
  /\ \E req \in Requests :
       \E last_rows \in last_n_rows(
                            persist_message(messages, req[1], "user", strip(req[2]), now),
                            req[1], 3) :
         \E latest_order \in get_latest_order_for_user(orders, req[1]) :
           chat_commit(chat(req[1], req[2], req[3], last_rows, latest_order))
  /\ UNCHANGED <<orders, products, warranties, clock_step>>

\* DELETE /database/clear
clear_database ==
  /\ Serve
  /\ messages' = <<>>
  /\ orders' = <<>>
  /\ products' = <<>>
  /\ warranties' = <<>>
  /\ cache' = PyNone
  /\ cache_timestamp' = PyNone
  /\ resp' = [op |-> "clear", status_code |-> 200]
  /\ now' = 0
  /\ trace' = NoTrace
  /\ UNCHANGED clock_step

\* a seed endpoint that leaves the pattern cache as it was
seed_database_endpoint_keeps_cache ==
  LET db == seed_database([ok |-> TRUE, warranties |-> warranties, products |-> products,
                           orders |-> orders], now, clock_step)
  IN  /\ Serve
      /\ warranties' = db.warranties
      /\ products' = db.products
      /\ orders' = db.orders
      /\ now' = IF orders = <<>> /\ db.ok THEN now + 3 * clock_step ELSE now
      /\ resp' = [op |-> "seed", status_code |-> IF db.ok THEN 200 ELSE 500]
      /\ trace' = NoTrace
      /\ UNCHANGED <<messages, clock_step, cache, cache_timestamp>>

\* POST /database/seed
seed_database_endpoint ==
  LET db == seed_database([ok |-> TRUE, warranties |-> warranties, products |-> products,
                           orders |-> orders], now, clock_step)
  IN  /\ Serve
      /\ warranties' = db.warranties
      /\ products' = db.products
      /\ orders' = db.orders
      /\ now' = IF orders = <<>> /\ db.ok THEN now + 3 * clock_step ELSE now
      /\ cache' = IF db.ok THEN PyNone ELSE cache
      /\ cache_timestamp' = IF db.ok THEN PyNone ELSE cache_timestamp
      /\ resp' = [op |-> "seed", status_code |-> IF db.ok THEN 200 ELSE 500]
      /\ trace' = NoTrace
      /\ UNCHANGED <<messages, clock_step>>

\* POST /database/reset
reset_database ==
  LET db == seed_database([ok |-> TRUE, warranties |-> <<>>, products |-> <<>>, orders |-> <<>>],
                          0, clock_step)
  IN  /\ Serve
      /\ messages' = <<>>
      /\ warranties' = db.warranties
      /\ products' = db.products
      /\ orders' = db.orders
      /\ now' = 3 * clock_step
      /\ cache' = PyNone
      /\ cache_timestamp' = PyNone
      /\ resp' = [op |-> "reset", status_code |-> 200]
      /\ trace' = NoTrace
      /\ UNCHANGED clock_step

\* GET /database/status
database_status ==
  /\ Serve
  /\ resp' = [op |-> "status", status_code |-> 200,
              tables |-> [messages |-> Len(messages), orders |-> Len(orders),
                          products |-> Len(products), warranties |-> Len(warranties)],
              cache_status |-> [patterns_cached |-> ~IsNone(cache),
                                cache_age_seconds |-> IF IsNone(cache_timestamp) THEN PyNone
                                                      ELSE [py |-> "int", v |-> now - cache_timestamp.v]]]
  /\ trace' = NoTrace
  /\ UNCHANGED <<messages, orders, products, warranties, cache, cache_timestamp, now, clock_step>>

\* GET /history/{user_id}
history ==
  /\ Serve
  /\ Len(messages) <= MaxLog
  /\ \E user_id \in Users : \E items \in get_all_messages_for_user(messages, user_id) :
       resp' = [op |-> "history", status_code |-> 200, user_id |-> user_id, items |-> items]
  /\ trace' = NoTrace
  /\ UNCHANGED <<messages, orders, products, warranties, cache, cache_timestamp, now, clock_step>>

\* Time is counted from the last moment the store was emptied: clear and reset leave no
\* timestamp behind, and the program only compares differences of times.
\* The clock passes a whole cache window.
ClockJump ==
  /\ now < MaxJumps * CacheTTL
  /\ now' = now + CacheTTL
  /\ UNCHANGED <<messages, orders, products, warranties, cache, cache_timestamp, clock_step,
               resp, trace, served>>

Next ==
  \/ Chat
  \/ clear_database
  \/ seed_database_endpoint
  \/ reset_database
  \/ database_status
  \/ history
  \/ ClockJump

Spec == Init /\ [][Next]_vars

(***************************************************************************)
(* The claims.  A state right after a /chat request is one with            *)
(* resp.op = "chat"; trace then holds what the request read and decided.   *)
(***************************************************************************)
AfterChat == resp.op = "chat" /\ trace.py = "dict"

\* the gateway call of the request returned a text
LLMReturned == AfterChat /\ trace.llm.ok

\* the product id the message states: a whole word made of P and digits
StatedProductId(message) == re_search_b_P_digits_b(message)

\* the message asks about warranty: the word garansi or warranty, in any case
AsksWarranty(message) == re_search_words(<<<<"g","a","r","a","n","s","i">>, <<"w","a","r","r","a","n","t","y">>>>, message, TRUE)

\* C1: a /chat request whose message has a warranty keyword and states a product id
\* executes get_warranty_info with that id, whatever the model suggested for the turn
\* (another tool, the "none" sentinel, nothing at all).
C1_SafeguardWins ==
  (LLMReturned /\ AsksWarranty(trace.message) /\ StatedProductId(trace.message) # None)
    => /\ trace.stage = "tool"
       /\ trace.action = <<"g","e","t","_","w","a","r","r","a","n","t","y","_","i","n","f","o">>
       /\ trace.action_input = StatedProductId(trace.message)
       /\ resp.tool_called = <<"g","e","t","_","w","a","r","r","a","n","t","y","_","i","n","f","o">>
       /\ resp.status_code = 200

\* the model suggested the order tool for "garansi P123" and the warranty tool ran for P123
C1_Witness ==
  /\ LLMReturned
  /\ trace.message = MsgWarrantyId
  /\ trace.llm = LLMOrder
  /\ dict_get(trace.parsed, <<"a","c","t","i","o","n">>, None) = <<"g","e","t","_","o","r","d","e","r","_","s","t","a","t","u","s">>
  /\ resp.tool_called = <<"g","e","t","_","w","a","r","r","a","n","t","y","_","i","n","f","o">>
  /\ trace.action_input = <<"P","1","2","3">>

\* the request ran the fallback classifier
FallbackRan == AfterChat /\ "fallback_invoked" \in DOMAIN trace /\ trace.fallback_invoked

\* message[i..j] is an order reference: the letters o, r, d in any case, then all the
\* digits that follow (at least one)
IsOrderReference(message, i, j) ==
  /\ 1 <= i /\ i + 3 <= j /\ j <= Len(message)
  /\ lower(SubSeq(message, i, i + 2)) = <<"o","r","d">>
  /\ \A k \in (i + 3)..j : message[k] \in DIGITS
  /\ (j < Len(message) => message[j + 1] \notin DIGITS)

\* the order references of the message, as <<first position, last position>>
OrderReferences(message) ==
  {p \in (1..Len(message)) \X (1..Len(message)) : IsOrderReference(message, p[1], p[2])}

\* C2: when the fallback classifier runs on a message that holds an order reference, it
\* returns get_order_status with that reference as written (the leftmost one), whatever
\* warranty, product-info or order-intent keywords, product ids or product names the
\* message holds besides.
C2_OrderReferenceFirst ==
  FallbackRan =>
    \A p \in OrderReferences(trace.message) :
      (\A q \in OrderReferences(trace.message) : p[1] <= q[1])
        => trace.fallback = ActionDict(<<"g","e","t","_","o","r","d","e","r","_","s","t","a","t","u","s">>,
                                       SubSeq(trace.message, p[1], p[2]))

\* the fallback ran on a message with a warranty keyword, a product-info keyword, a
\* product id, a product name and a lower-case order reference, and chose the order
C2_Witness ==
  /\ FallbackRan
  /\ trace.message = MsgMixed
  /\ re_search_words(FallbackWarrantyWords, trace.message, TRUE)
  /\ re_search_words(ProductInfoWords, trace.message, TRUE)
  /\ trace.patterns.product_id = <<"P","2","3","4">>
  /\ trace.patterns.product_name = <<"l","a","p","t","o","p">>
  /\ OrderReferences(trace.message) # {}
  /\ trace.fallback = ActionDict(<<"g","e","t","_","o","r","d","e","r","_","s","t","a","t","u","s">>, <<"o","r","d","1","2","3","4","5">>)

\* the turns a request fetched as its recent history (its own user turn among them)
RecentHistory(tr, log) == get_last_n_messages(log, tr.last_rows)

\* none of the turns states a product id
NoProductIdIn(turns) ==
  \A k \in 1..Len(turns) : StatedProductId(turns[k].content) = None

\* request tr, whose gateway call returned, was a warranty question without a product
\* id, of a user who has no orders in os and whose recent history in log states no
\* product id
WarrantyQuestionWithoutContext(tr, log, os) ==
  /\ tr.py = "dict" /\ tr.llm.ok
  /\ AsksWarranty(tr.message)
  /\ StatedProductId(tr.message) = None
  /\ \A k \in 1..Len(os) : os[k].user_id # tr.user_id
  /\ NoProductIdIn(RecentHistory(tr, log))

\* the step is a /chat request: every request appends its user turn first
ChatStep == resp'.op = "chat" /\ trace'.py = "dict" /\ messages' # messages

\* C3: such a request returns the fixed clarification reply with tool_called and
\* tool_output empty, runs no tool, and changes the store only by appending two turns:
\* the user's question, then the assistant's clarification.
C3_ClarificationOnly ==
  [][(ChatStep /\ WarrantyQuestionWithoutContext(trace', messages', orders')) =>
       /\ resp'.status_code = 200
       /\ resp'.reply = ReplyAskProduct
       /\ resp'.tool_called = None
       /\ resp'.tool_output = PyNone
       /\ trace'.stage = "ask_product"
       /\ Len(messages') = Len(messages) + 2
       /\ SubSeq(messages', 1, Len(messages)) = messages
       /\ LET q == messages'[Len(messages) + 1]
              a == messages'[Len(messages) + 2]
          IN  /\ q.user_id = trace'.user_id /\ q.role = "user" /\ q.content = trace'.message
              /\ a.user_id = trace'.user_id /\ a.role = "assistant"
              /\ a.content = ReplyAskProduct
       /\ UNCHANGED <<orders, products, warranties>>]_vars

\* user3, who has no orders, asked "garansi" while the model suggested the order tool,
\* and got the clarification
C3_Witness ==
  /\ AfterChat
  /\ WarrantyQuestionWithoutContext(trace, messages, orders)
  /\ trace.user_id = User3
  /\ trace.message = MsgWarranty
  /\ trace.llm = LLMOrder
  /\ resp.reply = ReplyAskProduct
  /\ Len(orders) > 0

\* histories that can be supplied: up to three turns of the log, of any user, in any order
SuppliedHistories(log) ==
  {get_last_n_messages(log, rows) :
     rows \in {<<>>} \cup {<<i>> : i \in 1..Len(log)}
              \cup {<<i, j>> : i \in 1..Len(log), j \in 1..Len(log)}}

\* what the query for a user's latest order can return: any order of the store, or none
LatestOrders(os) == {os[k] : k \in 1..Len(os)} \cup {PyNone}

\* the safeguard's answer to message is get_warranty_info with product_id for every
\* supplied history over log and every latest order over os
SafeguardIgnoresContext(message, product_id, log, os) ==
  \A h \in SuppliedHistories(log) : \A o \in LatestOrders(os) :
    handle_warranty_safeguard(message, h, o) = ActionDict(<<"g","e","t","_","w","a","r","r","a","n","t","y","_","i","n","f","o">>, product_id)

\* C4: for a message with a warranty keyword that states a product id,
\* handle_warranty_safeguard returns get_warranty_info with that id without using the
\* user's orders or the supplied history: the result is the same for every latest order
\* and every history, and it is the result the request worked with.
C4_ExplicitIdBypassesContext ==
  (LLMReturned /\ AsksWarranty(trace.message) /\ StatedProductId(trace.message) # None)
    => /\ trace.warranty_result
            = ActionDict(<<"g","e","t","_","w","a","r","r","a","n","t","y","_","i","n","f","o">>, StatedProductId(trace.message))
       /\ SafeguardIgnoresContext(trace.message, StatedProductId(trace.message),
                                  messages, orders)

\* user1, whose latest order is for another product and whose recent history states
\* another product id, asked "garansi P123" and the safeguard answered with P123
C4_Witness ==
  /\ LLMReturned
  /\ trace.message = MsgWarrantyId
  /\ trace.warranty_result = ActionDict(<<"g","e","t","_","w","a","r","r","a","n","t","y","_","i","n","f","o">>, <<"P","1","2","3">>)
  /\ \E o \in get_latest_order_for_user(orders, trace.user_id) :
       "product_id" \in DOMAIN o /\ o.product_id # <<"P","1","2","3">>
  /\ \E k \in 1..Len(RecentHistory(trace, messages)) :
       StatedProductId(RecentHistory(trace, messages)[k].content) = <<"P","2","3","4">>

\* the fallback ran on a message without an order reference, an order-intent phrase, a
\* warranty keyword or a product id, but with a product-info keyword and a name fragment
\* the pattern cache resolves to a product of the catalog
ProductInfoByName ==
  /\ FallbackRan
  /\ trace.patterns.order_id = None
  /\ ~re_search_words(OrderIntentPhrases, trace.message, TRUE)
  /\ ~re_search_words(FallbackWarrantyWords, trace.message, TRUE)
  /\ re_search_words(ProductInfoWords, trace.message, TRUE)
  /\ trace.patterns.product_id = None
  /\ trace.patterns.product_name # None
  /\ \E k \in 1..Len(products) : products[k].name = trace.patterns.matched_product

\* C5: for a message without a product id whose name fragment the pattern cache resolves
\* to a catalog product and which has a product-info keyword (no order or warranty rule
\* firing first), the fallback classifier returns get_product_info with the canonical
\* name of the product the fragment was resolved to.
C5_FallbackUsesCanonicalName ==
  ProductInfoByName
    => trace.fallback = ActionDict(<<"g","e","t","_","p","r","o","d","u","c","t","_","i","n","f","o">>, trace.patterns.matched_product)

\* the text part occurs in the text s
Contains(s, part) ==
  \E i \in 1..(Len(s) - Len(part) + 1) : SubSeq(s, i, i + Len(part) - 1) = part

\* the request executed get_order_status for a stated order reference
RanOrderStatusFor(reference) ==
  /\ AfterChat
  /\ trace.stage = "tool"
  /\ trace.action = <<"g","e","t","_","o","r","d","e","r","_","s","t","a","t","u","s">>
  /\ reference # <<>>
  /\ strip(trace.action_input) = reference

\* the reply states the status of order o and, when o has one, its tracking value
ReplyStates(o) ==
  /\ Contains(resp.reply, o.status)
  /\ (o.tracking # None => Contains(resp.reply, o.tracking))

\* C6 as stated: when a /chat request executes get_order_status for a reference that
\* names an order existing in the store, the reply states that order's status and, when
\* the order has a tracking value, the tracking value.
C6_ReplyStatesStoredOrder ==
  \A k \in 1..Len(orders) :
    RanOrderStatusFor(orders[k].order_id) => ReplyStates(orders[k])

\* C6, amended: when a /chat request executes get_order_status for a reference that
\* names an order of the requesting user, the tool output is that order and the reply
\* states its status and, when the order has a tracking value, the tracking value.
C6_ReplyStatesOwnOrder ==
  \A k \in 1..Len(orders) :
    (RanOrderStatusFor(orders[k].order_id) /\ orders[k].user_id = trace.user_id)
      => /\ resp.tool_output.found
         /\ resp.tool_output.order_id = orders[k].order_id
         /\ resp.tool_output.status = orders[k].status
         /\ ReplyStates(orders[k])

\* user1 asked about ORD12345, their own shipped order, and the reply names the status
\* and the tracking value
C6_Witness ==
  /\ RanOrderStatusFor(<<"O","R","D","1","2","3","4","5">>)
  /\ trace.user_id = User1
  /\ \E k \in 1..Len(orders) :
       /\ orders[k].order_id = <<"O","R","D","1","2","3","4","5">> /\ orders[k].user_id = User1
       /\ orders[k].tracking = <<"T","R","A","C","K","1","2","3">>
  /\ Contains(resp.reply, <<"S","h","i","p","p","e","d">>)
  /\ Contains(resp.reply, <<"T","R","A","C","K","1","2","3">>)

\* the turns of user_id in the order in which persist_message stored them
RECURSIVE PersistedTurns(_, _)
PersistedTurns(log, user_id) ==
  IF log = <<>> THEN <<>>
  ELSE (IF Head(log).user_id = user_id
        THEN <<[role |-> Head(log).role, content |-> Head(log).content]>> ELSE <<>>)
       \o PersistedTurns(Tail(log), user_id)

\* C7: after persist_message ran N times for a user, with no clear or reset in between,
\* get_all_messages_for_user returns exactly N items, in the order in which they were
\* persisted, each with its role and content, also when turns share a creation timestamp
\* and when turns of other users lie in between.
C7_HistoryRoundTrip ==
  resp.op = "history" =>
    /\ Len(resp.items) = Len(PersistedTurns(messages, resp.user_id))
    /\ \A i \in 1..Len(resp.items) :
         /\ resp.items[i].role = PersistedTurns(messages, resp.user_id)[i].role
         /\ resp.items[i].content = PersistedTurns(messages, resp.user_id)[i].content

AfterCatalogChange == resp.op \in {"clear", "seed", "reset"} /\ resp.status_code = 200

CacheEmpty == IsNone(cache) /\ IsNone(cache_timestamp)

CompletedWithReply ==
  /\ resp.status_code = 200
  /\ IsStr(resp.reply)
  /\ Len(messages) > 0
  /\ messages[Len(messages)].role = "assistant"
  /\ messages[Len(messages)].user_id = trace.user_id
  /\ messages[Len(messages)].content = resp.reply

\* C10: whatever text the gateway returns (no JSON, unparseable JSON, an object without
\* an action, an action whose action_input is missing, null or not a string), the /chat
\* request does not fail: it completes with a reply and a stored assistant turn.
C10_AnyModelTextIsHandled == LLMReturned => CompletedWithReply

\* the gateway call of the request raised
GatewayFailed(tr) == tr.py = "dict" /\ ~tr.llm.ok

\* C11: when the gateway call fails, the /chat request answers HTTP 500, stores no
\* assistant turn and no tool turn, and the user turn it stored first stays in the log:
\* the log grows by exactly that turn and nothing else in the store or cache changes.
C11_GatewayFailureKeepsUserTurn ==
  [][(ChatStep /\ GatewayFailed(trace')) =>
       /\ resp'.status_code = 500
       /\ resp'.reply = None
       /\ messages' = Append(messages, Message(trace'.user_id, "user", trace'.message, now))
       /\ UNCHANGED <<orders, products, warranties, cache, cache_timestamp>>]_vars

\* user1's mixed question met a failing gateway: the log ends with the question
C11_Witness ==
  /\ AfterChat
  /\ GatewayFailed(trace)
  /\ resp.status_code = 500
  /\ Len(messages) > 0
  /\ messages[Len(messages)].role = "user"
  /\ messages[Len(messages)].content = MsgMixed

\* the names the pipeline knows: the three tools and the "none" sentinel
FixedTools == {<<"g","e","t","_","o","r","d","e","r","_","s","t","a","t","u","s">>, <<"g","e","t","_","w","a","r","r","a","n","t","y","_","i","n","f","o">>, <<"g","e","t","_","p","r","o","d","u","c","t","_","i","n","f","o">>, <<"n","o","n","e">>}

\* the tool name of the object parsed from the model's text, or None
ParsedToolName(tr) ==
  IF IsDict(tr.parsed) THEN dict_get(tr.parsed, <<"a","c","t","i","o","n">>, None) ELSE None

\* the parsed action names a tool outside the fixed set
NamesUnsupportedTool(tr) ==
  /\ IsStr(ParsedToolName(tr))
  /\ ParsedToolName(tr) # <<>>
  /\ ParsedToolName(tr) \notin FixedTools

\* the request answered with the "tool not supported" reply for that name and the
\* unsupported_tool marker, and stored the tool turn and the reply
UnsupportedToolReported(tr, log, r) ==
  /\ r.status_code = 200
  /\ r.reply = reply_unsupported(ParsedToolName(tr))
  /\ r.tool_called = ParsedToolName(tr)
  /\ r.tool_output = [py |-> "dict", error |-> <<"u","n","s","u","p","p","o","r","t","e","d","_","t","o","o","l">>]
  /\ Len(log) >= 2
  /\ log[Len(log)].role = "assistant" /\ log[Len(log)].content = r.reply
  /\ log[Len(log) - 1].role = "tool"
  /\ log[Len(log) - 1].content = json_dumps_tool(ParsedToolName(tr), r.tool_output)

\* C12 as stated: whenever the parsed action names a tool outside the fixed set, the
\* reply is the "tool not supported" message with the unsupported_tool marker.
C12_UnsupportedToolAlwaysReported ==
  (LLMReturned /\ NamesUnsupportedTool(trace)) => UnsupportedToolReported(trace, messages, resp)

\* C12: when the parsed action names a tool outside the fixed set and the warranty
\* safeguard returned nothing for the message, the request does not crash: it answers
\* with the "tool not supported" message and the unsupported_tool marker.
C12_UnsupportedToolReported ==
  (LLMReturned /\ NamesUnsupportedTool(trace) /\ IsNone(trace.warranty_result))
    => UnsupportedToolReported(trace, messages, resp)

\* "halo" answered by a model that asked for cancel_order
C12_Witness ==
  /\ LLMReturned
  /\ NamesUnsupportedTool(trace)
  /\ IsNone(trace.warranty_result)
  /\ trace.message = MsgHello
  /\ resp.tool_called = <<"c","a","n","c","e","l","_","o","r","d","e","r">>

\* the request ended with no concrete action: the model gave none, the safeguard
\* returned none and the fallback returned none
EndedWithoutAction == LLMReturned /\ trace.stage = "no_action"

\* the model's text without the JSON object embedded in it (first "{" to last "}")
WithoutJsonFragment(text) ==
  LET opens == {i \in 1..Len(text) : text[i] = "{"}
      closes == {i \in 1..Len(text) : text[i] = "}"}
  IN  IF opens # {} /\ closes # {} /\ Max(closes) > Min(opens)
      THEN strip(SubSeq(text, 1, Min(opens) - 1) \o SubSeq(text, Max(closes) + 1, Len(text)))
      ELSE text

\* C13: when a /chat request ends with no concrete action, the reply returned and
\* persisted is the model's free text with the embedded JSON action fragment removed,
\* and tool_called and tool_output are empty.
C13_ReplyIsTextWithoutJson ==
  EndedWithoutAction =>
    /\ resp.reply = WithoutJsonFragment(trace.llm.text)
    /\ messages[Len(messages)].content = WithoutJsonFragment(trace.llm.text)
    /\ resp.tool_called = None
    /\ resp.tool_output = PyNone

(***************************************************************************)
(* determine_fallback_action on its own: the message and the extracted     *)
(* entities are drawn independently, then the classifier is applied.       *)
(***************************************************************************)
\* the messages handed to the classifier
FallbackMessages ==
  {<<"s","t","a","t","u","s"," ","p","e","s","a","n","a","n">>, <<"m","y"," ","o","r","d","e","r">>, <<"t","r","a","c","k","i","n","g"," ","o","r","d","e","r">>, <<"d","i","m","a","n","a"," ","p","e","s","a","n","a","n"," ","s","a","y","a">>,
   <<"g","a","r","a","n","s","i">>, <<"j","a","m","i","n","a","n">>, <<"g","u","a","r","a","n","t","e","e">>, <<"g","a","r","a","n","s","i"," ","s","t","a","t","u","s"," ","p","e","s","a","n","a","n">>,
   <<"i","n","f","o"," ","g","a","r","a","n","s","i">>, <<"i","n","f","o">>, <<"k","e","l","e","b","i","h","a","n">>, <<"d","e","s","c","r","i","p","t","i","o","n">>, <<"h","a","l","o">>}

\* the entities extract_patterns can hand over: each is the matched text or None
FallbackEntities ==
  {[order_id |-> o, product_id |-> p, product_name |-> n,
    matched_product |-> IF n = None THEN None ELSE <<"G","a","m","i","n","g"," ","L","a","p","t","o","p"," ","P","r","o">>] :
     o \in {None, <<"O","R","D","1","2","3","4","5">>}, p \in {None, <<"P","1","2","3">>}, n \in {None, <<"l","a","p","t","o","p">>}}

\* nothing is stored and nothing is cached; the inputs are in trace
FallbackInit ==
  /\ messages = <<>> /\ orders = <<>> /\ products = <<>> /\ warranties = <<>>
  /\ cache = PyNone /\ cache_timestamp = PyNone
  /\ now = 0 /\ clock_step = 0 /\ served = 0
  /\ resp = [op |-> "input"]
  /\ \E message \in FallbackMessages : \E patterns \in FallbackEntities :
       trace = [py |-> "fallback", message |-> message, patterns |-> patterns]

\* the classifier is applied to the inputs
Classify ==
  /\ resp.op = "input"
  /\ resp' = [op |-> "fallback",
              action_json |-> determine_fallback_action(trace.message, trace.patterns)]
  /\ UNCHANGED <<messages, orders, products, warranties, cache, cache_timestamp, now,
                 clock_step, served, trace>>

FallbackNext == Classify

FallbackSpec == FallbackInit /\ [][FallbackNext]_vars

\* the keywords of the decision table, each matched as a word of the message
TableOrderWords == <<<<"o","r","d","e","r">>, <<"p","e","s","a","n","a","n">>, <<"s","t","a","t","u","s">>, <<"t","r","a","c","k","i","n","g">>, <<"d","i","m","a","n","a">>>>

TableWarrantyWords == <<<<"g","a","r","a","n","s","i">>, <<"w","a","r","r","a","n","t","y">>, <<"j","a","m","i","n","a","n">>, <<"g","u","a","r","a","n","t","e","e">>>>

TableProductInfoWords ==
  <<<<"k","e","l","e","b","i","h","a","n">>, <<"k","e","k","u","r","a","n","g","a","n">>, <<"d","e","s","k","r","i","p","s","i">>, <<"d","e","t","a","i","l">>, <<"p","r","o","s">>, <<"c","o","n","s">>,
    <<"a","b","o","u","t">>, <<"i","n","f","o">>>>

\* the product entity of the rules 3 and 4: the id, else the name
TableProduct(patterns) ==
  IF patterns.product_id # None THEN patterns.product_id ELSE patterns.product_name

\* the decision table, first matching rule wins
DecisionTable(message, patterns) ==
  IF patterns.order_id # None
  THEN ActionDict(<<"g","e","t","_","o","r","d","e","r","_","s","t","a","t","u","s">>, patterns.order_id)
  ELSE IF re_search_words(TableOrderWords, message, TRUE)
  THEN ActionDict(<<"g","e","t","_","o","r","d","e","r","_","s","t","a","t","u","s">>, <<>>)
  ELSE IF re_search_words(TableWarrantyWords, message, TRUE) /\ TableProduct(patterns) # None
  THEN ActionDict(<<"g","e","t","_","w","a","r","r","a","n","t","y","_","i","n","f","o">>, TableProduct(patterns))
  ELSE IF re_search_words(TableProductInfoWords, message, TRUE) /\ TableProduct(patterns) # None
  THEN ActionDict(<<"g","e","t","_","p","r","o","d","u","c","t","_","i","n","f","o">>, TableProduct(patterns))
  ELSE PyNone

\* C14: for every message and every combination of extracted entities,
\* determine_fallback_action returns what the decision table gives: an extracted order
\* id, else an order-intent keyword, else a warranty keyword with a product, else a
\* product-info keyword with a product, else no action.
C14_FallbackIsDecisionTable ==
  resp.op = "fallback" => resp.action_json = DecisionTable(trace.message, trace.patterns)

\* the request got past the safeguard: the gateway returned and no clarification was sent
PastSafeguard == LLMReturned /\ trace.stage # "ask_product"

\* the model's output yields a concrete tool name: a parsed object whose action is a
\* non-empty name other than "none"
ModelNamesTool(tr) ==
  /\ IsDict(tr.parsed)
  /\ truthy(dict_get(tr.parsed, <<"a","c","t","i","o","n">>, None))
  /\ dict_get(tr.parsed, <<"a","c","t","i","o","n">>, None) # <<"n","o","n","e">>

\* after the safeguard there is no usable action: it returned none and the model's
\* output has no concrete tool name
NoUsableAction(tr) == IsNone(tr.warranty_result) /\ ~ModelNamesTool(tr)

\* C15: within one /chat request the fallback classifier is run if and only if, after
\* the safeguard, there is no usable action.
C15_FallbackIffNoUsableAction ==
  PastSafeguard => (trace.fallback_invoked <=> NoUsableAction(trace))

\* the positions of a call in the calls a request made
CallsOf(steps, call) == {k \in 1..Len(steps) : steps[k] = call}

\* the calls that resolve the action of the request
ResolvingCalls ==
  {"try_parse_json_action", "handle_warranty_safeguard", "extract_patterns",
   "determine_fallback_action", "execute_tool"}

\* C16: in every /chat request, on every path (tool executed, no action, clarification,
\* gateway failure), the gateway is called exactly once, after the user turn is
\* persisted and before any call that resolves the action; it is never asked again.
C16_GatewayCalledOnce ==
  AfterChat =>
    LET asks == CallsOf(trace.steps, "llm.ask")
    IN  /\ Cardinality(asks) = 1
        /\ trace.steps[1] = "persist_message"
        /\ \A k \in asks :
             /\ k > 1
             /\ \A j \in 1..Len(trace.steps) : trace.steps[j] \in ResolvingCalls => j > k

\* a request that went the whole way: fallback run, tool executed, two turns stored after
\* the one call of the gateway
C16_Witness ==
  /\ AfterChat
  /\ trace.stage = "tool"
  /\ trace.fallback_invoked
  /\ trace.steps = <<"persist_message", "get_last_n_messages", "llm.ask",
                     "try_parse_json_action", "handle_warranty_safeguard",
                     "extract_patterns", "determine_fallback_action", "execute_tool",
                     "persist_message", "persist_message">>

\* the request tr reached extract_patterns, which reads the pattern cache
PatternAccess(tr) ==
  /\ tr.py = "dict" /\ tr.llm.ok
  /\ tr.stage # "ask_product"
  /\ tr.fallback_invoked

\* what a pattern access at time t must do with the cache c built at ts over the catalog
\* ps: c2 and ts2 are the cache it leaves, tr the request that made it
FreshnessRule(c, ts, t, ps, c2, ts2, tr) ==
  IF ~IsNone(c) /\ t - ts.v < 300
  THEN /\ ~tr.rebuilt
       /\ c2 = c
       /\ ts2 = ts
  ELSE /\ tr.rebuilt
       /\ c2.patterns = build_patterns(ps, [patterns |-> <<>>,
                                            product_mapping |-> EmptyKV]).patterns
       /\ c2.product_mapping = build_patterns(ps, [patterns |-> <<>>,
                                                   product_mapping |-> EmptyKV]).product_mapping
       /\ ts2 = [py |-> "float", v |-> t]

\* C17: a pattern access made less than 300 seconds after the last build, with no
\* invalidation in between, serves the cached value and leaves the cache alone; an access
\* made 300 seconds or more after the last build, or finding the cache empty (invalidated
\* or never built), reads the catalog, replaces the cached value and sets the freshness
\* timestamp to the time of the access.
C17_CacheFreshness ==
  [][(ChatStep /\ PatternAccess(trace')) =>
       FreshnessRule(cache, cache_timestamp, now + clock_step, products,
                     cache', cache_timestamp', trace')]_vars

\* a value built at time 0 was replaced by an access made exactly 300 seconds later
C17_Witness ==
  /\ AfterChat
  /\ PatternAccess(trace)
  /\ trace.rebuilt
  /\ trace.expired
  /\ clock_step = 0
  /\ now = CacheTTL
  /\ cache_timestamp.v = CacheTTL

(***************************************************************************)
(* extract_patterns on its own: a catalog and a message are drawn, then    *)
(* the pattern list is built from the catalog and the message matched.     *)
(***************************************************************************)
\* a catalog row with the given id and name
CatalogProduct(id, name) ==
  [id |-> id, name |-> name, description |-> <<>>, pros |-> <<>>, cons |-> <<>>,
   warranty_id |-> 1]

\* the products catalogs are made of: two share "gaming", two share "laptop"
CatalogProducts ==
  {CatalogProduct(<<"P","3","4","5">>, <<"G","a","m","i","n","g"," ","L","a","p","t","o","p"," ","P","r","o">>),
   CatalogProduct(<<"P","4","5","6">>, <<"G","a","m","i","n","g"," ","M","o","u","s","e">>),
   CatalogProduct(<<"P","5","6","7">>, <<"O","f","f","i","c","e"," ","L","a","p","t","o","p">>)}

\* the catalogs: every sequence of distinct products, in every order
Catalogs ==
  {ps \in UNION {[1..n -> CatalogProducts] : n \in 1..3} :
     \A i \in DOMAIN ps : \A j \in DOMAIN ps : i # j => ps[i] # ps[j]}

\* the messages matched against the pattern list
CatalogMessages ==
  {<<"g","a","m","i","n","g">>, <<"l","a","p","t","o","p">>, <<"M","o","u","s","e">>, <<"o","f","f","i","c","e"," ","l","a","p","t","o","p">>, <<"h","a","l","o">>}

CatalogInit ==
  /\ messages = <<>> /\ orders = <<>> /\ warranties = <<>>
  /\ cache = PyNone /\ cache_timestamp = PyNone
  /\ now = 0 /\ clock_step = 0 /\ served = 0
  /\ resp = [op |-> "input"]
  /\ products \in Catalogs
  /\ \E message \in CatalogMessages : trace = [py |-> "extract", message |-> message]

\* extract_patterns is applied to the message: the pattern list is built and cached
Extract ==
  /\ resp.op = "input"
  /\ LET pats == get_product_patterns(cache, cache_timestamp, now, products)
     IN  /\ cache' = pats.cache
         /\ cache_timestamp' = pats.cache_timestamp
         /\ resp' = [op |-> "extract", patterns |-> extract_patterns(trace.message, pats.value)]
  /\ UNCHANGED <<messages, orders, products, warranties, now, clock_step, served, trace>>

CatalogNext == Extract

CatalogSpec == CatalogInit /\ [][CatalogNext]_vars

\* the rows of the catalog ps that have w among their significant words
ProductsWithWord(ps, w) ==
  {k \in 1..Len(ps) : \E j \in 1..Len(significant_words(ps[k].name)) :
                        significant_words(ps[k].name)[j] = w}

\* the message is one word, and only that word's pattern matches it
MatchesOnlyWord(ps, message) ==
  /\ ProductsWithWord(ps, lower(message)) # {}
  /\ \A k \in 1..Len(ps) : lower(ps[k].name) # lower(message)

\* C18: the lookup is first-match over the patterns in catalog order, and for a message
\* matching only a significant word that two catalog products share, the canonical
\* product extract_patterns reports is the one that comes first in the catalog.
C18_FirstProductWins ==
  (resp.op = "extract" /\ MatchesOnlyWord(products, trace.message)
     /\ Cardinality(ProductsWithWord(products, lower(trace.message))) >= 2)
    => /\ resp.patterns.product_name = trace.message
       /\ resp.patterns.matched_product
            = products[Min(ProductsWithWord(products, lower(trace.message)))].name

(***************************************************************************)
(* get_product_patterns under concurrency.  The server runs its requests   *)
(* as coroutines on one event loop: a request gives way only at an await.  *)
(* A call of get_product_patterns tests the cache and issues its query     *)
(* without giving way, the database answers the query at some later        *)
(* moment, and the call resumes later still to build and store its value.  *)
(* An administrative operation commits its changes, and resumes later to   *)
(* empty the cache.  Here trace holds, per in-flight call, its position    *)
(* and locals, and resp the position of the administrative operation.      *)
(***************************************************************************)
\* number of calls of get_product_patterns in flight
MaxInFlight == 2

Calls == 1..MaxInFlight

\* the value built from the rows a query returned
build_all(rows) ==
  [py |-> "tuple"] @@ build_patterns(rows, [patterns |-> <<>>, product_mapping |-> EmptyKV])

\* the database is empty or holds the seed; the cache is empty or was built at time 0
RaceInit ==
  /\ messages = <<>>
  /\ \E seeded \in BOOLEAN :
       /\ warranties = IF seeded THEN SeedWarranties(0) ELSE <<>>
       /\ products = IF seeded THEN SeedProducts(0) ELSE <<>>
       /\ orders = IF seeded THEN SeedOrders(0, 0) ELSE <<>>
  /\ \E built \in BOOLEAN :
       /\ cache = IF built THEN build_all(products) ELSE PyNone
       /\ cache_timestamp = IF built THEN [py |-> "float", v |-> 0] ELSE PyNone
  /\ now = 0 /\ clock_step = 0 /\ served = 0
  /\ resp = [op |-> "none", pc |-> "idle"]
  /\ trace = [r \in Calls |-> [pc |-> "idle", entered |-> "idle", rows |-> <<>>,
                               value |-> PyNone, rebuilt |-> FALSE]]

\* the call starts: a fresh cached value is returned, otherwise the query is issued
RaceEnter(r) ==
  /\ trace[r].pc = "idle"
  /\ trace' = [trace EXCEPT ![r] =
                 IF cache_is_fresh(cache, cache_timestamp, now)
                 THEN [@ EXCEPT !.pc = "done", !.entered = resp.pc, !.value = cache]
                 ELSE [@ EXCEPT !.pc = "querying", !.entered = resp.pc]]
  /\ UNCHANGED <<messages, orders, products, warranties, cache, cache_timestamp, now,
                 clock_step, served, resp>>

\* the database answers select(Product) with the rows it holds at that moment
RaceQuery(r) ==
  /\ trace[r].pc = "querying"
  /\ trace' = [trace EXCEPT ![r] = [@ EXCEPT !.pc = "fetched", !.rows = products]]
  /\ UNCHANGED <<messages, orders, products, warranties, cache, cache_timestamp, now,
                 clock_step, served, resp>>

\* a resumed call that appends its lists to the value it finds in the cache
RaceStoreAppending(r) ==
  /\ trace[r].pc = "fetched"
  /\ cache' = [py |-> "tuple"]
              @@ build_patterns(trace[r].rows,
                                IF IsNone(cache)
                                THEN [patterns |-> <<>>, product_mapping |-> EmptyKV]
                                ELSE [patterns |-> cache.patterns,
                                      product_mapping |-> cache.product_mapping])
  /\ cache_timestamp' = [py |-> "float", v |-> now]
  /\ trace' = [trace EXCEPT ![r] = [@ EXCEPT !.pc = "done", !.value = cache', !.rebuilt = TRUE]]
  /\ UNCHANGED <<messages, orders, products, warranties, now, clock_step, served, resp>>

\* the call resumes: it builds the lists from its rows, stores them and the time, returns
RaceStore(r) ==
  /\ trace[r].pc = "fetched"
  /\ cache' = build_all(trace[r].rows)
  /\ cache_timestamp' = [py |-> "float", v |-> now]
  /\ trace' = [trace EXCEPT ![r] = [@ EXCEPT !.pc = "done", !.value = build_all(trace[r].rows),
                                             !.rebuilt = TRUE]]
  /\ UNCHANGED <<messages, orders, products, warranties, now, clock_step, served, resp>>

\* DELETE /database/clear commits its four deletes
RaceClearCommit ==
  /\ resp.pc = "idle"
  /\ messages' = <<>> /\ orders' = <<>> /\ products' = <<>> /\ warranties' = <<>>
  /\ resp' = [op |-> "clear", pc |-> "committed"]
  /\ UNCHANGED <<cache, cache_timestamp, now, clock_step, served, trace>>

\* POST /database/seed: seed_database returns
RaceSeedCommit ==
  LET db == seed_database([ok |-> TRUE, warranties |-> warranties, products |-> products,
                           orders |-> orders], now, clock_step)
  IN  /\ resp.pc = "idle"
      /\ warranties' = db.warranties /\ products' = db.products /\ orders' = db.orders
      /\ resp' = [op |-> "seed", pc |-> IF db.ok THEN "committed" ELSE "returned"]
      /\ UNCHANGED <<messages, cache, cache_timestamp, now, clock_step, served, trace>>

\* POST /database/reset commits its four deletes
RaceResetDelete ==
  /\ resp.pc = "idle"
  /\ messages' = <<>> /\ orders' = <<>> /\ products' = <<>> /\ warranties' = <<>>
  /\ resp' = [op |-> "reset", pc |-> "deleted"]
  /\ UNCHANGED <<cache, cache_timestamp, now, clock_step, served, trace>>

\* POST /database/reset: its seed_database returns
RaceResetSeed ==
  LET db == seed_database([ok |-> TRUE, warranties |-> warranties, products |-> products,
                           orders |-> orders], now, clock_step)
  IN  /\ resp.pc = "deleted"
      /\ warranties' = db.warranties /\ products' = db.products /\ orders' = db.orders
      /\ resp' = [op |-> "reset", pc |-> "committed"]
      /\ UNCHANGED <<messages, cache, cache_timestamp, now, clock_step, served, trace>>

\* the administrative operation resumes: it empties the cache and returns
RaceInvalidate ==
  /\ resp.pc = "committed"
  /\ cache' = PyNone
  /\ cache_timestamp' = PyNone
  /\ resp' = [resp EXCEPT !.pc = "returned"]
  /\ UNCHANGED <<messages, orders, products, warranties, now, clock_step, served, trace>>

\* the clock passes a whole cache window
RaceTick ==
  /\ now < MaxJumps * CacheTTL
  /\ now' = now + CacheTTL
  /\ UNCHANGED <<messages, orders, products, warranties, cache, cache_timestamp,
                 clock_step, served, resp, trace>>

RaceNext ==
  \/ \E r \in Calls : RaceEnter(r) \/ RaceQuery(r) \/ RaceStore(r)
  \/ RaceClearCommit
  \/ RaceSeedCommit
  \/ RaceResetDelete
  \/ RaceResetSeed
  \/ RaceInvalidate
  \/ RaceTick

RaceSpec == RaceInit /\ [][RaceNext]_vars

\* no call is under way
AllFinished == \A r \in Calls : trace[r].pc \in {"idle", "done"}

C20_NoStalePatterns ==
  \A r \in Calls :
    (trace[r].pc = "done" /\ trace[r].entered = "returned")
      => trace[r].value = build_all(products)

(***************************************************************************)
(* Lookups that find nothing.                                              *)
(***************************************************************************)
\* the three lookup tools
LookupTools == {<<"g","e","t","_","o","r","d","e","r","_","s","t","a","t","u","s">>, <<"g","e","t","_","w","a","r","r","a","n","t","y","_","i","n","f","o">>, <<"g","e","t","_","p","r","o","d","u","c","t","_","i","n","f","o">>}

\* the request executed one of the three tools and its lookup found no entity
LookupFoundNothing ==
  /\ AfterChat
  /\ trace.stage = "tool"
  /\ trace.action \in LookupTools
  /\ \/ IsNone(resp.tool_output)
     \/ ("found" \in DOMAIN resp.tool_output /\ ~resp.tool_output.found)

\* the reply says that nothing was found
CouldNotFindReply(reply) ==
  \/ reply = <<"A","n","d","a"," ","t","i","d","a","k"," ","m","e","m","i","l","i","k","i"," ","p","e","s","a","n","a","n"," ","d","e","n","g","a","n"," ","n","o","m","o","r"," ","t","e","r","s","e","b","u","t",".">>
  \/ startswith(reply, <<"M","a","a","f"," ","-"," ","s","a","y","a"," ","t","i","d","a","k"," ","d","a","p","a","t"," ","m","e","n","e","m","u","k","a","n"," ","i","n","f","o","r","m","a","s","i">>)

\* C21: when the executed tool finds no matching entity, the request does not fail: the
\* reply is a "could not find" message and the tool_output returned and persisted for the
\* turn is a lookup result carrying found:false, for each of the three tools.
C21_NotFoundCarriesFoundFalse ==
  LookupFoundNothing =>
    /\ resp.status_code = 200
    /\ CouldNotFindReply(resp.reply)
    /\ IsDict(resp.tool_output)
    /\ "found" \in DOMAIN resp.tool_output
    /\ ~resp.tool_output.found
    /\ Contains(messages[Len(messages) - 1].content, <<"\"","f","o","u","n","d","\"",":"," ","f","a","l","s","e">>)

(***************************************************************************)
(* The store under concurrent administrative operations.  Every step is    *)
(* one committed transaction of a handler in flight: the database          *)
(* serialises its writers, and a handler gives way at each await.  trace   *)
(* holds, per handler, its kind and position; served counts the handlers   *)
(* started.                                                                *)
(***************************************************************************)
Ops == 1..MaxInFlight

\* the handlers that write the catalog: the three endpoints and a restart's startup_event
OpKinds == {"clear", "seed", "reset", "startup"}

\* the state after startup_event on an empty database
StoreInit ==
  /\ clock_step \in {0, 1}
  /\ messages = <<>>
  /\ warranties = SeedWarranties(0)
  /\ products = SeedProducts(0)
  /\ orders = SeedOrders(0, clock_step)
  /\ now = 3 * clock_step
  /\ cache = PyNone /\ cache_timestamp = PyNone
  /\ resp = [op |-> "none", status_code |-> 200]
  /\ served = 0
  /\ trace = [o \in Ops |-> [kind |-> "none", pc |-> "idle", status_code |-> 200]]

\* a handler is entered
StoreStart(o) ==
  /\ trace[o].pc \in {"idle", "done"}
  /\ served < MaxRequests
  /\ served' = served + 1
  /\ \E kind \in OpKinds :
       trace' = [trace EXCEPT ![o] = [kind |-> kind, status_code |-> 200,
                                      pc |-> IF kind \in {"clear", "reset"} THEN "deleting"
                                             ELSE "reading"]]
  /\ UNCHANGED <<messages, orders, products, warranties, cache, cache_timestamp, now,
                 clock_step, resp>>

\* clear_database and reset_database: the four deletes, committed together
StoreDelete(o) ==
  /\ trace[o].pc = "deleting"
  /\ messages' = <<>> /\ orders' = <<>> /\ products' = <<>> /\ warranties' = <<>>
  /\ trace' = [trace EXCEPT ![o].pc = IF trace[o].kind = "reset" THEN "reading" ELSE "done"]
  /\ UNCHANGED <<cache, cache_timestamp, now, clock_step, resp, served>>

\* seed_database: select(Order).limit(1); it returns when an order exists
StoreSeedRead(o) ==
  /\ trace[o].pc = "reading"
  /\ trace' = [trace EXCEPT ![o].pc = IF orders # <<>> THEN "done" ELSE "inserting"]
  /\ UNCHANGED <<messages, orders, products, warranties, cache, cache_timestamp, now,
                 clock_step, resp, served>>

\* a seed whose inserts are accepted whatever the tables hold
StoreSeedCommit_unchecked(o) ==
  /\ trace[o].pc = "inserting"
  /\ warranties' = warranties \o SeedWarranties(Len(warranties))
  /\ products' = products \o SeedProducts(Len(warranties))
  /\ orders' = orders \o SeedOrders(now, clock_step)
  /\ now' = now + 3 * clock_step
  /\ trace' = [trace EXCEPT ![o].pc = "done"]
  /\ UNCHANGED <<messages, cache, cache_timestamp, clock_step, resp, served>>

\* seed_database: the warranties, products and orders are inserted and committed
\* together; a primary key or unique value already present makes the transaction fail
StoreSeedCommit(o) ==
  LET conflict ==
        \/ \E i \in 1..Len(products) : \E j \in 1..3 : products[i].id = SeedProducts(0)[j].id
        \/ \E i \in 1..Len(orders) : \E j \in 1..3 :
              orders[i].order_id = SeedOrders(0, 0)[j].order_id
  IN  /\ trace[o].pc = "inserting"
      /\ warranties' = IF conflict THEN warranties
                       ELSE warranties \o SeedWarranties(Len(warranties))
      /\ products' = IF conflict THEN products ELSE products \o SeedProducts(Len(warranties))
      /\ orders' = IF conflict THEN orders ELSE orders \o SeedOrders(now, clock_step)
      /\ now' = IF conflict THEN now ELSE now + 3 * clock_step
      /\ trace' = [trace EXCEPT ![o].pc = "done",
                                ![o].status_code = IF conflict THEN 500 ELSE 200]
      /\ UNCHANGED <<messages, cache, cache_timestamp, clock_step, resp, served>>

\* a /chat request in flight commits one turn
StorePersist ==
  /\ Len(messages) < MaxLog
  /\ \E role \in {"user", "assistant"} :
       messages' = persist_message(messages, User1, role, MsgHello, now)
  /\ UNCHANGED <<orders, products, warranties, cache, cache_timestamp, now, clock_step,
                 resp, served, trace>>

StoreNext ==
  \/ \E o \in Ops : StoreStart(o) \/ StoreDelete(o) \/ StoreSeedRead(o) \/ StoreSeedCommit(o)
  \/ StorePersist

StoreSpec == StoreInit /\ [][StoreNext]_vars

\* the products of the catalog that order o references
ReferencedProducts(o) == {i \in 1..Len(products) : products[i].id = o.product_id}

\* C22: in every state reachable by any sequence and any interleaving of startup
\* initialisation, /chat requests and the administrative clear, seed and reset
\* operations, every stored order references exactly one product of the catalog.
C22_OrdersReferenceOneProduct ==
  \A k \in 1..Len(orders) : Cardinality(ReferencedProducts(orders[k])) = 1

\* two handlers read an empty orders table; one committed the seed, and the insert of
\* the other, a reset, was refused
C22_Witness ==
  /\ orders # <<>>
  /\ \E o \in Ops : /\ trace[o].kind = "reset"
                    /\ trace[o].pc = "done"
                    /\ trace[o].status_code = 500

(***************************************************************************)
(* The conversation log is append-only.                                    *)
(***************************************************************************)
\* the log before is the beginning of the log after
IsPrefix(before, after) ==
  Len(before) <= Len(after) /\ SubSeq(after, 1, Len(before)) = before

\* every turn of after beyond before belongs to user_id
AppendedFor(before, after, user_id) ==
  \A k \in (Len(before) + 1)..Len(after) : after[k].user_id = user_id

\* C23: a /chat request only appends turns to the requesting user's conversation log:
\* it never modifies or deletes an existing turn of any user and leaves every product,
\* warranty and order record unchanged; existing turns are removed only by the bulk
\* clear and reset operations.
C23_ChatOnlyAppends ==
  [][/\ ChatStep => /\ IsPrefix(messages, messages')
                    /\ Len(messages') > Len(messages)
                    /\ AppendedFor(messages, messages', trace'.user_id)
                    /\ UNCHANGED <<orders, products, warranties>>
     /\ ~IsPrefix(messages, messages') => resp'.op \in {"clear", "reset"}]_vars

\* user1 was answered while the log already held a turn of user3, which is still there
C23_Witness ==
  /\ AfterChat
  /\ trace.user_id = User1
  /\ Len(messages) >= 3
  /\ messages[1].user_id = User3
  /\ messages[Len(messages)].user_id = User1

(***************************************************************************)
(* The product-info reply as a function of the message: the part of chat() *)
(* from the fallback to the reply, over the seeded catalog, for messages   *)
(* built from the product-info keywords.                                   *)
(***************************************************************************)
\* the elements of a sequence
Range(seq) == {seq[i] : i \in 1..Len(seq)}

\* how a message names the product: by id, by a word of the name, by a capitalised word
InfoTargets == {<<"P","1","2","3">>, <<"s","m","a","r","t","p","h","o","n","e">>, <<"L","a","p","t","o","p">>}

\* one keyword and a product, for every keyword of the fallback and of the reply, then
\* messages with several keywords, capitals, or none
InfoMessages ==
  {k \o <<" ">> \o t :
     k \in Range(ProductInfoWords) \cup Range(ProsWords) \cup Range(ConsWords)
           \cup Range(DescriptionWords),
     t \in InfoTargets}
  \cup {<<"K","E","K","U","R","A","N","G","A","N"," ","P","1","2","3">>, <<"k","e","k","u","r","a","n","g","a","n"," ","d","a","n"," ","k","e","l","e","b","i","h","a","n"," ","P","3","4","5">>, <<"i","n","f","o"," ","d","e","t","a","i","l"," ","c","o","n","s"," ","P","2","3","4">>,
        <<"t","e","n","t","a","n","g"," ","k","e","l","e","m","a","h","a","n"," ","l","a","p","t","o","p">>, <<"D","e","t","a","i","l",","," ","b","u","k","a","n"," ","i","n","f","o",":"," ","s","m","a","r","t","p","h","o","n","e">>, <<"h","e","a","d","p","h","o","n","e">>,
        <<"a","b","o","u","t"," ","t","h","e"," ","p","r","o","s"," ","o","f"," ","P","9","9","9">>}

\* what the model suggested: nothing, the "none" sentinel, or the product tool itself
InfoSuggestions ==
  {PyNone, ActionDict(<<"n","o","n","e">>, <<>>), ActionDict(<<"g","e","t","_","p","r","o","d","u","c","t","_","i","n","f","o">>, <<"P","2","3","4">>)}

InfoInit ==
  /\ messages = <<>> /\ orders = <<>>
  /\ products = SeedProducts(0) /\ warranties = SeedWarranties(0)
  /\ cache = PyNone /\ cache_timestamp = PyNone
  /\ now = 0 /\ clock_step = 0 /\ served = 0
  /\ resp = [op |-> "input"]
  /\ \E message \in InfoMessages : \E parsed \in InfoSuggestions :
       trace = [py |-> "info", message |-> message, parsed |-> parsed]

\* the fallback when the model gave no action, the tool, and the reply
Describe ==
  LET action_json ==
        IF needs_fallback(trace.parsed)
        THEN determine_fallback_action(trace.message,
                                       extract_patterns(trace.message, build_all(products)))
        ELSE trace.parsed
      action == dict_get(action_json, <<"a","c","t","i","o","n">>, None)
      action_input == dict_get(action_json, <<"a","c","t","i","o","n","_","i","n","p","u","t">>, <<>>)
      tool == execute_tool(orders, products, warranties, User1, action, action_input,
                           <<>>, PyNone)
  IN  /\ resp.op = "input"
      /\ resp' = IF has_action(action_json)
                 THEN [op |-> "reply", fallback |-> needs_fallback(trace.parsed),
                       tool_called |-> action, tool_output |-> tool.output,
                       reply |-> format_reply(action, action_input, tool.output,
                                              trace.message)]
                 ELSE [op |-> "reply", fallback |-> needs_fallback(trace.parsed),
                       tool_called |-> None, tool_output |-> PyNone, reply |-> None]
      /\ UNCHANGED <<messages, orders, products, warranties, cache, cache_timestamp, now,
                     clock_step, served, trace>>

InfoNext == Describe

InfoSpec == InfoInit /\ [][InfoNext]_vars

\* the keywords of each section, in any case
NamesPros(message) ==
  re_search_words(<<<<"k","e","l","e","b","i","h","a","n">>, <<"k","e","u","n","g","g","u","l","a","n">>, <<"p","r","o","s">>, <<"a","d","v","a","n","t","a","g","e">>>>, message, TRUE)

NamesCons(message) ==
  re_search_words(<<<<"k","e","k","u","r","a","n","g","a","n">>, <<"k","e","l","e","m","a","h","a","n">>, <<"c","o","n","s">>, <<"d","i","s","a","d","v","a","n","t","a","g","e">>>>, message, TRUE)

NamesDescription(message) ==
  re_search_words(<<<<"d","e","s","k","r","i","p","s","i">>, <<"d","e","s","c","r","i","p","t","i","o","n">>, <<"d","e","t","a","i","l">>, <<"t","e","n","t","a","n","g">>, <<"a","b","o","u","t">>>>,
                  message, TRUE)

\* the section the message asks for: pros before cons before description, else the card
SectionAsked(message) ==
  IF NamesPros(message) THEN {"pros"}
  ELSE IF NamesCons(message) THEN {"cons"}
  ELSE IF NamesDescription(message) THEN {"description"}
  ELSE {"id", "description", "pros", "cons"}

\* the fields of product p whose text the reply shows
SectionsShown(reply, p) == {f \in {"id", "description", "pros", "cons"} : Contains(reply, p[f])}

\* get_product_info ran and found a product
ProductFound ==
  /\ resp.op = "reply"
  /\ resp.tool_called = <<"g","e","t","_","p","r","o","d","u","c","t","_","i","n","f","o">>
  /\ IsDict(resp.tool_output)

\* the section a keyword of the fallback's product-info rule names ("info" names none)
NamedSection(k) ==
  IF k \in {<<"k","e","l","e","b","i","h","a","n">>, <<"p","r","o","s">>} THEN {"pros"}
  ELSE IF k \in {<<"k","e","k","u","r","a","n","g","a","n">>, <<"c","o","n","s">>} THEN {"cons"}
  ELSE IF k = <<"i","n","f","o">> THEN {"id", "description", "pros", "cons"}
  ELSE {"description"}

\* C24: when get_product_info finds the product, the reply shows exactly one section,
\* chosen by the keyword of the message: only the pros for a pros keyword, otherwise only
\* the cons for a cons keyword, otherwise only the description for a description keyword,
\* otherwise the full card; and a message made of one keyword of the fallback's
\* product-info rule and a product gets the section that keyword names.
C24_SectionFollowsKeyword ==
  ProductFound =>
    /\ SectionsShown(resp.reply, resp.tool_output) = SectionAsked(trace.message)
    /\ \A k \in Range(ProductInfoWords) : \A t \in InfoTargets :
         (trace.message = k \o <<" ">> \o t /\ resp.fallback)
           => SectionsShown(resp.reply, resp.tool_output) = NamedSection(k)

\* "kekurangan dan kelebihan P345" went through the fallback and got the pros only
C24_Witness ==
  /\ ProductFound
  /\ resp.fallback
  /\ trace.message = <<"k","e","k","u","r","a","n","g","a","n"," ","d","a","n"," ","k","e","l","e","b","i","h","a","n"," ","P","3","4","5">>
  /\ SectionsShown(resp.reply, resp.tool_output) = {"pros"}

(***************************************************************************)
(* The resolver's context: latest order, then history, then the question.  *)
(***************************************************************************)
\* the orders of user_id that no other order of the user is newer than
MostRecentOrders(os, user_id) ==
  {os[k] : k \in {i \in rows_of_user(os, user_id) :
                    \A j \in rows_of_user(os, user_id) : os[j].created_at <= os[i].created_at}}

\* the first product id stated in the turns, taken in the order supplied, or None
FirstStatedProduct(turns) ==
  LET hits == {k \in 1..Len(turns) : StatedProductId(turns[k].content) # None}
  IN  IF hits = {} THEN None ELSE StatedProductId(turns[Min(hits)].content)

\* the request was a warranty question that states no product id
WarrantyQuestionWithoutId ==
  LLMReturned /\ AsksWarranty(trace.message) /\ StatedProductId(trace.message) = None

\* the request executed get_warranty_info for product_id on the safeguard's word
ResolvedWarrantyFor(product_id) ==
  /\ trace.warranty_result = ActionDict(<<"g","e","t","_","w","a","r","r","a","n","t","y","_","i","n","f","o">>, product_id)
  /\ trace.stage = "tool"
  /\ resp.tool_called = <<"g","e","t","_","w","a","r","r","a","n","t","y","_","i","n","f","o">>
  /\ trace.action_input = product_id

\* C25: for a warranty question without an explicit product id, if the user has an order
\* the result is get_warranty_info with the product of the user's most recent order,
\* whatever the supplied history, the product names in the message and the model's
\* suggestion; only if the user has no order the supplied history is scanned in the
\* order supplied and the first product id found is used; only if neither yields a
\* product the clarification is returned.
C25_OrderThenHistoryThenAsk ==
  WarrantyQuestionWithoutId =>
    LET recent == MostRecentOrders(orders, trace.user_id)
        stated == FirstStatedProduct(RecentHistory(trace, messages))
    IN  IF recent # {}
        THEN /\ \E o \in recent : ResolvedWarrantyFor(o.product_id)
             /\ \A o \in recent : \A h \in SuppliedHistories(messages) :
                  handle_warranty_safeguard(trace.message, h, o)
                    = ActionDict(<<"g","e","t","_","w","a","r","r","a","n","t","y","_","i","n","f","o">>, o.product_id)
        ELSE IF stated # None
        THEN ResolvedWarrantyFor(stated)
        ELSE /\ trace.warranty_result = PyStr(<<"a","s","k","_","p","r","o","d","u","c","t">>)
             /\ trace.stage = "ask_product"
             /\ resp.reply = ReplyAskProduct

\* user1, whose history states P234 and whose model suggested the order tool, asked
\* "garansi" and was answered for P345, the product of the newest order
C25_Witness ==
  /\ WarrantyQuestionWithoutId
  /\ trace.user_id = User1
  /\ trace.message = MsgWarranty
  /\ trace.llm = LLMOrder
  /\ clock_step = 1
  /\ FirstStatedProduct(RecentHistory(trace, messages)) = <<"P","2","3","4">>
  /\ ResolvedWarrantyFor(<<"P","3","4","5">>)

(***************************************************************************)
(* get_order_status with an empty input: the order is taken from context.  *)
(***************************************************************************)
\* the resolved action of the request is get_order_status with an empty input
OrderStatusFromContext ==
  /\ LLMReturned
  /\ "action" \in DOMAIN trace
  /\ trace.action = <<"g","e","t","_","o","r","d","e","r","_","s","t","a","t","u","s">>
  /\ IsStr(trace.action_input)
  /\ strip(trace.action_input) = <<>>

\* the order references written in text as ORD and digits: <<first, last position>>
WrittenOrderReferences(text) ==
  {p \in OrderReferences(text) : SubSeq(text, p[1], p[1] + 2) = <<"O","R","D">>}

\* the first order reference of the turns, taken in the order given, or None
FirstOrderReference(turns) ==
  LET with == {k \in 1..Len(turns) : WrittenOrderReferences(turns[k].content) # {}}
  IN  IF with = {} THEN None
      ELSE LET text == turns[Min(with)].content
               p == CHOOSE q \in WrittenOrderReferences(text) :
                      \A r \in WrittenOrderReferences(text) : q[1] <= r[1]
           IN  SubSeq(text, p[1], p[2])

\* the tool output reports order o
Reports(output, o) ==
  /\ output.found
  /\ output.order_id = o.order_id
  /\ output.status = o.status
  /\ output.tracking = o.tracking
  /\ output.user_id = o.user_id

NewTurns(before, after) == SubSeq(after, Len(before) + 1, Len(after))

Roles(turns) == [k \in 1..Len(turns) |-> turns[k].role]

\* the turns request tr appended between the logs before and after, against its response r
TurnSequence(before, after, tr, r) ==
  LET new == NewTurns(before, after)
  IN  /\ IsPrefix(before, after)
      /\ AppendedFor(before, after, tr.user_id)
      /\ (tr.stage = "tool") = (r.tool_called # None)
      /\ (r.tool_called # None) = (\E k \in 1..Len(new) : new[k].role = "tool")
      /\ IF r.tool_called # None
         THEN /\ Roles(new) = <<"user", "tool", "assistant">>
              /\ new[1].content = tr.message
              /\ new[2].content = json_dumps_tool(r.tool_called, r.tool_output)
              /\ new[3].content = r.reply
         ELSE /\ Roles(new) = <<"user", "assistant">>
              /\ tr.stage \in {"no_action", "ask_product"}
              /\ new[1].content = tr.message
              /\ new[2].content = r.reply
              /\ r.tool_output = PyNone

\* C27: a /chat request that executes a tool appends exactly three turns in the order
\* user, tool, assistant; a request that completes without a tool (no action, or the
\* clarification) appends exactly two turns in the order user, assistant; the response's
\* tool_called is non-empty exactly when a tool turn was persisted, and the persisted
\* tool turn records the tool name and the output that the response returns.
C27_TurnSequence ==
  [][(ChatStep /\ resp'.status_code = 200)
       => TurnSequence(messages, messages', trace', resp')]_vars

\* after a turn of user3, user1 asked "garansi P123": the log ends with user1's
\* question, the warranty tool's output and the reply
C27_Witness ==
  /\ AfterChat
  /\ trace.stage = "tool"
  /\ resp.tool_called = <<"g","e","t","_","w","a","r","r","a","n","t","y","_","i","n","f","o">>
  /\ IsDict(resp.tool_output)
  /\ Len(messages) >= 4
  /\ messages[1].user_id = User3
  /\ Roles(SubSeq(messages, Len(messages) - 2, Len(messages))) = <<"user", "tool", "assistant">>
  /\ messages[Len(messages) - 1].content
       = json_dumps_tool(resp.tool_called, resp.tool_output)

(***************************************************************************)
(* Order lookups are scoped to the requesting user.                        *)
(***************************************************************************)
\* the orders table without the orders of other users
OwnOrders(os, user_id) == SelectSeq(os, LAMBDA o : o.user_id = user_id)

\* the response reports an order as found
ReportsAnOrder ==
  /\ AfterChat
  /\ IsDict(resp.tool_output)
  /\ "found" \in DOMAIN resp.tool_output
  /\ resp.tool_output.found

\* what request tr decided and answered is what it decides and answers on the store os,
\* for some latest order that os can give
SameAnswerOn(os, tr, log, r) ==
  \E latest_order \in get_latest_order_for_user(os, tr.user_id) :
    LET last_messages == RecentHistory(tr, log)
        tool == execute_tool(os, products, warranties, tr.user_id, tr.action,
                             tr.action_input, last_messages, latest_order)
    IN  /\ tr.warranty_result
             = handle_warranty_safeguard(tr.message, last_messages, latest_order)
        /\ tr.stage = "tool_error" => tool.raised
        /\ tr.stage = "tool" =>
             /\ ~tool.raised
             /\ r.tool_output = tool.output
             /\ r.reply = format_reply(tr.action, tr.action_input, tool.output, tr.message)

\* C28: a /chat response never reports found:true for an order whose user_id differs
\* from the request's user_id, and what is answered to one user does not depend on the
\* orders of other users: it is the answer the request gets when the store holds the
\* requesting user's orders only.
C28_OrdersScopedToUser ==
  /\ ReportsAnOrder =>
       /\ resp.tool_output.user_id = trace.user_id
       /\ \E k \in rows_of_user(orders, trace.user_id) :
            /\ orders[k].order_id = resp.tool_output.order_id
            /\ orders[k].status = resp.tool_output.status
            /\ orders[k].tracking = resp.tool_output.tracking
  /\ LLMReturned => SameAnswerOn(OwnOrders(orders, trace.user_id), trace, messages, resp)

\* user2 asked about ORD12345, which is user1's order, and was told it is not theirs
C28_Witness ==
  /\ RanOrderStatusFor(<<"O","R","D","1","2","3","4","5">>)
  /\ trace.user_id = User2
  /\ \E k \in 1..Len(orders) :
       orders[k].order_id = <<"O","R","D","1","2","3","4","5">> /\ orders[k].user_id = User1
  /\ ~resp.tool_output.found
  /\ resp.reply = <<"A","n","d","a"," ","t","i","d","a","k"," ","m","e","m","i","l","i","k","i"," ","p","e","s","a","n","a","n"," ","d","e","n","g","a","n"," ","n","o","m","o","r"," ","t","e","r","s","e","b","u","t",".">>

(***************************************************************************)
(* The resolver against entity extraction and the fallback.                *)
(***************************************************************************)
\* the fallback classifier treats the message as a warranty question
FallbackWarrantyIntent(message) ==
  re_search_words(<<<<"g","a","r","a","n","s","i">>, <<"w","a","r","r","a","n","t","y">>, <<"j","a","m","i","n","a","n">>, <<"g","u","a","r","a","n","t","e","e">>>>, message, TRUE)

\* the product id entity extraction finds in the message, or None
ExtractedProductId(message) ==
  extract_patterns(message, [patterns |-> <<>>, product_mapping |-> EmptyKV]).product_id

\* the resolver treated the request's message as a warranty question
ResolverApplied(tr) == ~IsNone(tr.warranty_result)

\* the resolver took product_id as the explicit product id of the request's message
ResolverRecognised(tr, product_id) ==
  /\ StatedProductId(tr.message) # None
  /\ lower(StatedProductId(tr.message)) = lower(product_id)

\* C29: the resolver and entity extraction / the fallback agree on what a warranty
\* question with an explicit product id is: every message the fallback treats as a
\* warranty question (garansi, warranty, jaminan, guarantee) is treated as one by the
\* resolver, and every product id that entity extraction recognises (P followed by
\* digits, in any case) is recognised as the explicit product id by the resolver.
C29_ResolverAgreesWithExtraction ==
  LLMReturned =>
    /\ FallbackWarrantyIntent(trace.message) => ResolverApplied(trace)
    /\ ExtractedProductId(trace.message) # None
         => ResolverRecognised(trace, ExtractedProductId(trace.message))

====
